---- MODULE Spec2Model ----
(***************************************************************************)
(* Verification model of the Nexus audio bridge.                           *)
(*                                                                         *)
(*  - OggPageParser (src/core/audio/ogg_parser.py): the Ogg page           *)
(*    demultiplexer, fed a byte stream in arbitrary chunks.                *)
(*  - AudioBridge (src/core/audio/streamer.py): the connection to the      *)
(*    sidecar, the two streaming loops and their shared flags, the         *)
(*    teardown of process_stream and stop().                               *)
(*                                                                         *)
(* Bytes are the integers 0..255.                                          *)
(***************************************************************************)
EXTENDS Integers, Sequences, FiniteSets, TLC

(***************************************************************************)
(* Bounds of the model.                                                    *)
(***************************************************************************)
MaxPages == 2
MaxSegs == 3
MaxChunk == 1
MaxStream == 320
MaxClientMsgs == 1
MaxModelFrames == 1
MaxReply == 2
MaxStops == 2
GraceSeconds == 2
MaxEvents == 3
MaxSaves == 3
MaxTurnMsgs == 2

(***************************************************************************)
(* Program constants of ogg_parser.py.                                     *)
(***************************************************************************)
HeaderSize == 27
LacingMax == 255
HeaderSkip == 2
KeepTail == 3
CapO == 79
OggS == <<79, 103, 103, 83>>

(***************************************************************************)
(* Program constants of streamer.py.                                       *)
(***************************************************************************)
\* line 132: PERSONAPLEX_MAX_RECONNECT_ATTEMPTS, by default
max_attempts == 3

VARIABLES
    \* OggPageParser fields
    buffer, partial_packet, packets_sent,
    \* history of the parser: every list returned by process, concatenated,
    \* the list returned by the last call, every packet completed at line 50
    out, last, completed,
    \* carried: some call returned with a packet pending in partial_packet
    carried,
    \* the byte source feeding the parser: its garbage prefix, its pages'
    \* segment tables, its bytes, the bytes fed so far, and whether they
    \* were fed in more than one call
    garbage, pages, stream, pos, split,
    \* AudioBridge fields
    is_running, is_client_speaking, is_model_speaking, model_ws, model_state,
    recorder,
    \* SessionRecorder.transcript (event types), and what was sent to the client
    transcript, client_out,
    \* process_stream and its two tasks: where each stands
    stream_pc, client_task, model_task,
    \* the reply of the conversation engine still to relay
    turn,
    \* what the two transports delivered so far
    client_rx, model_rx,
    \* what was sent to the sidecar so far
    model_tx,
    \* connect_model: the attempt of its loop (0 outside connect_model)
    attempt,
    \* sidecar sockets: how many were opened and then dropped without a
    \* close, and how many times close() was called
    leaked, closes,
    \* stop(): where a call stands, and how many calls have returned
    stop_pc, stops,
    \* how the first task to end left its loop: "end" for a disconnect, a
    \* closed connection or a cleared running flag, "error" for the
    \* handlers of unexpected exceptions ("none" while both tasks run); and
    \* every chunk the conversation engine was asked to stream so far
    first_end, engine_out,
    \* how many warnings the sidecar-output task and the supervisor have
    \* logged since streaming started
    warned,
    \* how the call endpoint saw process_stream end: "completed" when it
    \* returned, "error" when it raised ("none" until then)
    call_end,
    \* seconds the sidecar-output task has spent in receives that timed out
    waited,
    \* a SessionRecorder (history.py): its transcript as role/type entries,
    \* its status and the session_data finalize stored; calls counts the
    \* log_* and finalize calls made on it, by method name
    events, status, session_data, calls,
    \* a FileSessionRepository (history.py): the directories and the files
    \* under base_path (path |-> text and modification time), the number of
    \* writes so far, and the last call with its outcome
    dirs, files, clock, result,
    \* every save_session call that returned, as <<tenant_id, session_data>>
    saved,
    \* the call endpoint, per call: where it stands, its conversation session
    \* id ("none" before create_session), whether it has a bridge, how many
    \* times it invoked the bridge's stop(), the status of its own recorder,
    \* the recorder its finally block chose, the messages and closes it sent
    \* to the client, and whether its final save succeeded
    endpoint_pc, conversation_session, audio_bridge, stop_calls,
    recorder_status, effective_recorder, call_sent, enriched,
    \* the conversation manager: its active session ids, the status of each
    \* session's recorder, and the sessions whose save close_session scheduled
    active_sessions, session_status, scheduled

parserVars == <<buffer, partial_packet, packets_sent, out, last, completed, carried>>
feedVars == <<garbage, pages, stream, pos, split>>
bridgeVars == <<is_running, is_client_speaking, is_model_speaking, model_ws,
                model_state, recorder, transcript, client_out, stream_pc,
                client_task, model_task, turn, client_rx, model_rx, model_tx,
                attempt, leaked, closes, stop_pc, stops, first_end,
                engine_out, warned, call_end>>
connVars == <<attempt, leaked, closes, stop_pc, stops>>
histVars == <<first_end, engine_out, warned, call_end>>
recVars == <<events, status, session_data, calls>>
repoVars == <<dirs, files, clock, result, saved>>
callVars == <<endpoint_pc, conversation_session, audio_bridge, stop_calls,
              recorder_status, effective_recorder, call_sent, enriched,
              active_sessions, session_status, scheduled>>
sessVars == <<recVars, repoVars, callVars>>
vars == <<parserVars, feedVars, bridgeVars, waited, sessVars>>

(***************************************************************************)
(* Sequence helpers.                                                       *)
(***************************************************************************)
RECURSIVE SumSeq(_)
SumSeq(s) == IF s = <<>> THEN 0 ELSE Head(s) + SumSeq(Tail(s))

RECURSIVE Flatten(_)
Flatten(ss) == IF ss = <<>> THEN <<>> ELSE Head(ss) \o Flatten(Tail(ss))

Drop(s, n) == IF n >= Len(s) THEN <<>> ELSE SubSeq(s, n + 1, Len(s))

Take(s, n) == IF n >= Len(s) THEN s ELSE SubSeq(s, 1, n)

SeqsUpTo(S, n) == UNION {[1..k -> S] : k \in 0..n}

(***************************************************************************)
(* OggPageParser.process, line by line.                                    *)
(***************************************************************************)

\* line 17: self.buffer[0:4] != b'OggS'
IsCapture(buf) == Take(buf, 4) = OggS

\* line 19: self.buffer.index(b'O', 1): 1-based positions >= 2 holding 'O'
CandidateOs(buf) == {i \in 2..Len(buf) : buf[i] = CapO}

NextO(buf) == CHOOSE i \in CandidateOs(buf) : \A j \in CandidateOs(buf) : i <= j

\* a resynchronization that also deletes the candidate byte
ResyncPastO(buf) == Drop(buf, NextO(buf))

\* line 20: del self.buffer[:next_o]
ResyncTo(buf) == Drop(buf, NextO(buf) - 1)

\* a resynchronization that deletes nothing when no candidate is found
ResyncKeepAll(buf) == buf

\* lines 23-24: if len(self.buffer) > 3: del self.buffer[:-3]
ResyncNone(buf) == IF Len(buf) > KeepTail THEN Drop(buf, Len(buf) - KeepTail) ELSE buf

\* lines 27-28
NumSegments(buf) == buf[HeaderSize]

HeaderLen(buf) == HeaderSize + NumSegments(buf)

\* line 32
SegmentTable(buf) == SubSeq(buf, HeaderSize + 1, HeaderLen(buf))

\* a page size that counts the body twice
PageSizeBodyTwice(buf) == HeaderLen(buf) + 2 * SumSeq(SegmentTable(buf))

\* lines 33-34
PageSize(buf) == HeaderLen(buf) + SumSeq(SegmentTable(buf))

\* line 29 and line 36: the page in front of the buffer is not whole yet
HeaderShort(buf) == Len(buf) < HeaderLen(buf)

\* a page taken for whole only once a byte of the next one is buffered
PageShortLate(buf) == Len(buf) <= HeaderLen(buf) + SumSeq(SegmentTable(buf))

PageShort(buf) == Len(buf) < PageSize(buf)

\* line 39
PageBody(buf) == SubSeq(buf, HeaderLen(buf) + 1, PageSize(buf))

\* a consumed page that takes the rest of the buffer with it
ConsumeAll(buf) == <<>>

\* line 53: del self.buffer[:page_size]
ConsumePage(buf) == Drop(buf, PageSize(buf))

\* line 46: if self.partial_packet
PacketCounts(pkt) == pkt # <<>>

\* line 48: if self.packets_sent >= 2
PastHeaders(sent) == sent >= HeaderSkip

\* a lacing value of 255 taken for the end of a packet
TerminatesAt255(length) == length <= LacingMax

\* line 45
Terminates(length) == length < LacingMax

\* a completed packet that is not cleared from partial_packet
CompleteKeepPartial(st) ==
    IF PacketCounts(st.partial)
    THEN [st EXCEPT !.sent = @ + 1,
                    !.packets = IF PastHeaders(st.sent) THEN Append(@, st.partial) ELSE @,
                    !.completed = Append(@, st.partial)]
    ELSE st

\* lines 45-51: a packet ends at a lacing value below 255.  st is the
\* walking state [partial, sent, packets, completed].
CompletePacket(st) ==
    IF PacketCounts(st.partial)
    THEN [partial |-> <<>>,
          sent |-> st.sent + 1,
          packets |-> IF PastHeaders(st.sent)
                      THEN Append(st.packets, st.partial) ELSE st.packets,
          completed |-> Append(st.completed, st.partial)]
    ELSE st

\* lines 41-51: for length in segment_table
RECURSIVE WalkSegments(_, _, _, _)
WalkSegments(table, body, cursor, st) ==
    IF table = <<>> THEN st
    ELSE LET length == Head(table)
             ext == [st EXCEPT !.partial =
                        @ \o SubSeq(body, cursor + 1, cursor + length)]
             nxt == IF Terminates(length) THEN CompletePacket(ext) ELSE ext
         IN WalkSegments(Tail(table), body, cursor + length, nxt)

\* lines 16-53: the while loop.  ps is [buffer, partial, sent, packets, completed].
RECURSIVE ProcessLoop(_)
ProcessLoop(ps) ==
    IF Len(ps.buffer) < HeaderSize THEN ps
    ELSE IF ~IsCapture(ps.buffer)
    THEN IF CandidateOs(ps.buffer) # {}
         THEN ProcessLoop([ps EXCEPT !.buffer = ResyncTo(ps.buffer)])
         ELSE [ps EXCEPT !.buffer = ResyncNone(ps.buffer)]
    ELSE IF HeaderShort(ps.buffer) THEN ps
    ELSE IF PageShort(ps.buffer) THEN ps
    ELSE LET st == WalkSegments(SegmentTable(ps.buffer), PageBody(ps.buffer), 0,
                                [partial |-> ps.partial, sent |-> ps.sent,
                                 packets |-> ps.packets,
                                 completed |-> ps.completed])
         IN ProcessLoop([buffer |-> ConsumePage(ps.buffer),
                         partial |-> st.partial, sent |-> st.sent,
                         packets |-> st.packets, completed |-> st.completed])

\* lines 16-37 and 53: whether the iteration that starts with buf in the
\* buffer ends in a continue (a resynchronization, or a consumed page)
\* rather than in a break or at the loop test
LoopGoesOn(buf) ==
    /\ Len(buf) >= HeaderSize
    /\ IF ~IsCapture(buf) THEN CandidateOs(buf) # {}
       ELSE ~HeaderShort(buf) /\ ~PageShort(buf)

\* lines 20 and 53: the buffer such an iteration leaves
LoopBuffer(buf) == IF ~IsCapture(buf) THEN ResyncTo(buf) ELSE ConsumePage(buf)

\* lines 12-55: process(chunk) on a parser in state [buffer, partial, sent];
\* packets is the returned list, completed the packets finished by this call.
Process(buf, partial, sent, chunk) ==
    ProcessLoop([buffer |-> buf \o chunk, partial |-> partial, sent |-> sent,
                 packets |-> <<>>, completed |-> <<>>])

\* lines 7-10 followed by one process call: a fresh parser fed bytes at once
ProcessOnce(bytes) == Process(<<>>, <<>>, 0, bytes)

(***************************************************************************)
(* The byte source: an Ogg writer's output behind a garbage prefix.        *)
(* A stream is described by its pages' segment tables; body bytes are      *)
(* numbered so that every packet is recognisable.                          *)
(***************************************************************************)
LacingVals == {0, 1, LacingMax}

\* the lacing values of a whole stream, at most MaxSegs of them
Lacings == SeqsUpTo(LacingVals, MaxSegs)

\* how many entries each page's segment table takes
PageCounts == UNION {[1..k -> 0..MaxSegs] : k \in 1..MaxPages}

RECURSIVE SplitPages(_, _)
SplitPages(lac, counts) ==
    IF counts = <<>> THEN <<>>
    ELSE <<Take(lac, Head(counts))>> \o SplitPages(Drop(lac, Head(counts)), Tail(counts))

RECURSIVE TotalBody(_)
TotalBody(ps) == IF ps = <<>> THEN 0 ELSE SumSeq(Head(ps)) + TotalBody(Tail(ps))

\* length in bytes of the stream the pages ps make
PagesLen(ps) == Len(ps) * HeaderSize + Len(Flatten(ps)) + TotalBody(ps)

PageSeqs ==
    UNION {{SplitPages(lac, c) : c \in {d \in PageCounts : SumSeq(d) = Len(lac)}} :
             lac \in {l \in Lacings : SumSeq(l) + HeaderSize <= MaxStream}}

\* k-th body byte of a stream (k from 0): 79 ('O'), 64, 65, ..., 78, 79, ...
BodyByte(k) == 64 + ((k + 15) % 16)

BodyBytes(from, n) == [i \in 1..n |-> BodyByte(from + i - 1)]

\* bytes 0..25 of a page header: capture pattern, then 22 bytes the parser
\* never reads; byte 26 is the segment count
HeaderBytes(table) == OggS \o [i \in 1..(HeaderSize - 5) |-> 0] \o <<Len(table)>>

PageBytes(table, from) == HeaderBytes(table) \o table \o BodyBytes(from, SumSeq(table))

RECURSIVE PagesBytes(_, _)
PagesBytes(ps, from) ==
    IF ps = <<>> THEN <<>>
    ELSE PageBytes(Head(ps), from) \o PagesBytes(Tail(ps), from + SumSeq(Head(ps)))

Pad(n) == [i \in 1..n |-> 120]

\* garbage prefixes: none, a partial capture pattern, a long one ending in
\* 'O', and a false capture pattern
GarbageSet == {<<>>, <<79, 103, 103>>, Pad(HeaderSize) \o <<79>>,
               <<79, 103, 103, 83, 120>>}

ChunkLens == (1..MaxChunk) \cup {HeaderSize}

(***************************************************************************)
(* State machine of one parser instance.                                   *)
(***************************************************************************)
InitParser ==
    /\ buffer = <<>>
    /\ partial_packet = <<>>
    /\ packets_sent = 0
    /\ out = <<>>
    /\ last = <<>>
    /\ completed = <<>>
    /\ carried = FALSE

InitFeed ==
    /\ garbage \in GarbageSet
    /\ pages \in PageSeqs
    /\ Len(garbage) + PagesLen(pages) <= MaxStream
    /\ stream = garbage \o PagesBytes(pages, 0)
    /\ pos = 0
    /\ split = FALSE

\* one call parser.process(chunk) with the next n bytes of the stream
Feed(n) ==
    /\ pos + n <= Len(stream)
    /\ \E r \in {Process(buffer, partial_packet, packets_sent,
                        SubSeq(stream, pos + 1, pos + n))} :
          /\ buffer' = r.buffer
          /\ partial_packet' = r.partial
          /\ packets_sent' = r.sent
          /\ last' = r.packets
          /\ out' = out \o r.packets
          /\ completed' = completed \o r.completed
          /\ carried' = (carried \/ r.partial # <<>>)
    /\ pos' = pos + n
    /\ split' = (pos > 0)
    /\ UNCHANGED <<garbage, pages, stream>>

FeedChunk == \E n \in ChunkLens : Feed(n)

FeedRest == pos < Len(stream) /\ Feed(Len(stream) - pos)

(***************************************************************************)
(* AudioBridge (streamer.py).                                              *)
(***************************************************************************)
\* lines 87-120: the bridge after construction; rec tells whether a
\* SessionRecorder was passed
BridgeCreated(rec) ==
    /\ is_running = FALSE
    /\ is_client_speaking = FALSE
    /\ is_model_speaking = FALSE
    /\ model_ws = "none"
    /\ model_state = "disconnected"
    /\ recorder = rec
    /\ transcript = <<>>
    /\ client_out = <<>>
    /\ stream_pc = "created"
    /\ client_task = "none"
    /\ model_task = "none"
    /\ turn = <<>>
    /\ client_rx = <<>>
    /\ model_rx = <<>>
    /\ model_tx = <<>>
    /\ attempt = 0
    /\ leaked = 0
    /\ closes = 0
    /\ stop_pc = "idle"
    /\ stops = 0
    /\ first_end = "none"
    /\ warned = 0
    /\ call_end = "none"
    /\ engine_out = <<>>

\* history.py 60-74 behind log_barge_in (178-182) and log_ai_audio
LogEvent(t, event) == IF recorder THEN Append(t, event) ELSE t

\* lines 136 and 187: the loop of connect_model goes on to another attempt
MoreAttemptsInclusive(n) == n <= max_attempts

MoreAttempts(n) == n < max_attempts

\* lines 136-143 (and line 188 for a retry): an attempt starts.  The call
\* endpoint runs process_stream before it ever calls stop (main.py 482, 531)
ConnectAttempt ==
    /\ stream_pc \in {"created", "retry"}
    /\ stop_pc = "idle" /\ stops = 0
    /\ attempt' = attempt + 1
    /\ model_state' = "connecting"
    /\ stream_pc' = "connecting"
    /\ UNCHANGED <<is_running, is_client_speaking, is_model_speaking, model_ws,
                   recorder, transcript, client_out, client_task, model_task,
                   turn, client_rx, model_rx, model_tx, leaked, closes,
                   stop_pc, stops,
                   histVars>>

\* a socket whose only reference is overwritten or cleared while it is open
Dropped(ws, n) == IF ws = "open" THEN n + 1 ELSE n

\* lines 147-154: websockets.connect returned a socket, which replaces
\* whatever model_ws held
ConnectOpened ==
    /\ stream_pc = "connecting"
    /\ model_ws' = "open"
    /\ leaked' = Dropped(model_ws, leaked)
    /\ stream_pc' = "handshake"
    /\ UNCHANGED <<is_running, is_client_speaking, is_model_speaking,
                   model_state, recorder, transcript, client_out, client_task,
                   model_task, turn, client_rx, model_rx, model_tx, attempt,
                   closes, stop_pc, stops,
                   histVars>>

\* lines 175-196: the attempt raised, with model_ws left as ws.  The state
\* is ERROR; another attempt follows the sleep of line 188, and after the
\* last one model_ws is cleared and connect_model returns False
AttemptFailed(ws) ==
    /\ model_state' = "error"
    /\ IF MoreAttempts(attempt)
       THEN /\ stream_pc' = "retry"
            /\ model_ws' = ws
            /\ UNCHANGED <<leaked, attempt>>
       ELSE /\ stream_pc' = "returned"
            /\ model_ws' = "none"
            /\ leaked' = Dropped(ws, leaked)
            /\ attempt' = 0
    /\ UNCHANGED <<is_running, is_client_speaking, is_model_speaking, recorder,
                   transcript, client_out, client_task, model_task, turn,
                   client_rx, model_rx, model_tx, closes, stop_pc, stops,
                   histVars>>

\* lines 147-154 raised: refused, timed out or another error
ConnectFailed ==
    /\ stream_pc = "connecting"
    /\ AttemptFailed(model_ws)

\* lines 158-173: the session_config message is sent, the state becomes
\* CONNECTED and connect_model returns True
HandshakeSent ==
    /\ stream_pc = "handshake"
    /\ model_tx' = Append(model_tx, "session_config")
    /\ model_state' = "connected"
    /\ stream_pc' = "returned"
    /\ attempt' = 0
    /\ UNCHANGED <<is_running, is_client_speaking, is_model_speaking, model_ws,
                   recorder, transcript, client_out, client_task, model_task,
                   turn, client_rx, model_rx, leaked, closes, stop_pc, stops,
                   histVars>>

\* lines 158-166 raised: the peer closed the connection ("shut"), or the
\* message could not be built or sent on a socket that stays open
HandshakeFailed ==
    /\ stream_pc = "handshake"
    /\ \E ws \in {"open", "shut"} : AttemptFailed(ws)

\* a process_stream that starts its tasks only on a connected bridge
ProcessStreamStartConnected ==
    /\ stream_pc = "returned"
    /\ model_state = "connected"
    /\ is_running' = TRUE
    /\ client_task' = "top"
    /\ model_task' = "top"
    /\ stream_pc' = "streaming"
    /\ UNCHANGED <<is_client_speaking, is_model_speaking, model_ws, model_state,
                   recorder, transcript, client_out, turn, client_rx, model_rx,
                   model_tx, connVars, histVars>>

\* lines 505-519: connect_model has returned, its result is not looked at;
\* running is set and both tasks are created
ProcessStreamStart ==
    /\ stream_pc = "returned"
    /\ is_running' = TRUE
    /\ client_task' = "top"
    /\ model_task' = "top"
    /\ stream_pc' = "streaming"
    /\ UNCHANGED <<is_client_speaking, is_model_speaking, model_ws, model_state,
                   recorder, transcript, client_out, turn, client_rx, model_rx,
                   model_tx, connVars, histVars>>

\* what asyncio.wait (lines 522-525) has to observe: how the first task
\* to leave its loop did so
FirstEnd(cur, how) == IF cur = "none" THEN how ELSE cur

\* line 345: while self.is_running, then the receive of lines 348-351
ClientLoopTop ==
    /\ client_task = "top"
    /\ client_task' = IF is_running THEN "recv" ELSE "done"
    /\ first_end' = IF is_running THEN first_end ELSE FirstEnd(first_end, "end")
    /\ UNCHANGED <<is_running, is_client_speaking, is_model_speaking, model_ws,
                   model_state, recorder, transcript, client_out, stream_pc,
                   model_task, turn, client_rx, model_rx, model_tx, connVars,
                   engine_out, warned, call_end>>

\* lines 376-377: the receive timed out
ClientTimeout ==
    /\ client_task = "recv"
    /\ client_task' = "top"
    /\ UNCHANGED <<is_running, is_client_speaking, is_model_speaking, model_ws,
                   model_state, recorder, transcript, client_out, stream_pc,
                   model_task, turn, client_rx, model_rx, model_tx, connVars, histVars>>

\* how the receive of lines 348-351 ends the task: a websocket.disconnect
\* message (lines 354-357) or WebSocketDisconnect/RuntimeError (lines
\* 378-382), or another exception (lines 383-386)
ClientEndings == {"end", "error"}

\* lines 354-357 and 378-386: running is cleared and the loop is left
ClientDisconnect ==
    /\ client_task = "recv"
    /\ is_running' = FALSE
    /\ client_task' = "done"
    /\ \E how \in ClientEndings : first_end' = FirstEnd(first_end, how)
    /\ UNCHANGED <<is_client_speaking, is_model_speaking, model_ws, model_state,
                   recorder, transcript, client_out, stream_pc, model_task, turn,
                   client_rx, model_rx, model_tx, connVars, engine_out, warned, call_end>>

ClientTextKinds == {"message", "not_message", "invalid_json", "non_object_json"}

EngineChunks == {"text", "error", "tool_call"}

\* replies of at most one chunk, and replies of up to MaxReply chunks
ShortReplies == {<<>>} \cup {<<chunk>> : chunk \in EngineChunks}

LongReplies == SeqsUpTo(EngineChunks, MaxReply)

\* a client-input task that reads the next frame while a reply is still
\* being relayed
ClientTextConcurrent(kind, replies, most) ==
    /\ client_task \in {"recv", "turn"}
    /\ Len(client_rx) < most
    /\ client_rx' = Append(client_rx, kind)
    /\ IF kind = "message"
       THEN /\ \E reply \in replies :
                  /\ turn' = turn \o reply
                  /\ engine_out' = engine_out \o reply
            /\ client_task' = "turn"
            /\ UNCHANGED <<is_running, first_end>>
       ELSE IF kind = "non_object_json"
       THEN /\ is_running' = FALSE
            /\ client_task' = "done"
            /\ first_end' = FirstEnd(first_end, "error")
            /\ UNCHANGED <<turn, engine_out>>
       ELSE /\ client_task' = client_task
            /\ UNCHANGED <<is_running, turn, first_end, engine_out>>
    /\ UNCHANGED <<is_client_speaking, is_model_speaking, model_ws, model_state,
                   recorder, transcript, client_out, stream_pc, model_task,
                   model_rx, model_tx, connVars, warned, call_end>>

\* lines 359-369: a text frame.  A message starts a conversation turn
\* (line 367), which is awaited before the loop goes on; JSON of another
\* type and invalid JSON are ignored; JSON that is no object makes
\* payload.get raise, which lines 383-386 catch.  replies are the chunk
\* sequences the engine may stream for the message, most the number of
\* frames the client sends at most
ClientTextUpTo(kind, replies, most) ==
    /\ client_task = "recv"
    /\ Len(client_rx) < most
    /\ client_rx' = Append(client_rx, kind)
    /\ IF kind = "message"
       THEN /\ \E reply \in replies :
                  /\ turn' = reply
                  /\ engine_out' = engine_out \o reply
            /\ client_task' = "turn"
            /\ UNCHANGED <<is_running, first_end>>
       ELSE IF kind = "non_object_json"
       THEN /\ is_running' = FALSE
            /\ client_task' = "done"
            /\ first_end' = FirstEnd(first_end, "error")
            /\ UNCHANGED <<turn, engine_out>>
       ELSE /\ client_task' = "top"
            /\ UNCHANGED <<is_running, turn, first_end, engine_out>>
    /\ UNCHANGED <<is_client_speaking, is_model_speaking, model_ws, model_state,
                   recorder, transcript, client_out, stream_pc, model_task,
                   model_rx, model_tx, connVars, warned, call_end>>

\* lines 359-369 with at most MaxClientMsgs frames from the client
ClientText(kind, replies) == ClientTextUpTo(kind, replies, MaxClientMsgs)

\* lines 371-374: a binary frame: pass
ClientBytes ==
    /\ client_task = "recv"
    /\ Len(client_rx) < MaxClientMsgs
    /\ client_rx' = Append(client_rx, "bytes")
    /\ client_task' = "top"
    /\ UNCHANGED <<is_running, is_client_speaking, is_model_speaking, model_ws,
                   model_state, recorder, transcript, client_out, stream_pc,
                   model_task, turn, model_rx, model_tx, connVars, histVars>>

\* a relay that sends the client an event for chunks of every type
RelayEveryChunk(sent, chunk) ==
    IF chunk = "text" THEN Append(sent, "response_part")
    ELSE Append(sent, "error")

\* lines 402-415: one chunk of the engine's reply
RelayChunk(sent, chunk) ==
    IF chunk = "text" THEN Append(sent, "response_part")
    ELSE IF chunk = "error" THEN Append(sent, "error")
    ELSE sent

\* lines 396-415: the engine yields its next chunk and it is relayed, or
\* the stream is exhausted and the turn is over
ClientTurnStep ==
    /\ client_task = "turn"
    /\ IF turn = <<>>
       THEN /\ client_task' = "top"
            /\ UNCHANGED <<turn, client_out>>
       ELSE /\ client_out' = RelayChunk(client_out, Head(turn))
            /\ turn' = Tail(turn)
            /\ UNCHANGED client_task
    /\ UNCHANGED <<is_running, is_client_speaking, is_model_speaking, model_ws,
                   model_state, recorder, transcript, stream_pc, model_task,
                   client_rx, model_rx, model_tx, connVars, histVars>>

\* lines 405 and 415 raised (the client transport is gone), or the engine
\* did: lines 378-386 end the task with the rest of the reply unsent
ClientTurnFailed ==
    /\ client_task = "turn"
    /\ turn # <<>>
    /\ is_running' = FALSE
    /\ client_task' = "done"
    /\ first_end' = FirstEnd(first_end, "error")
    /\ UNCHANGED <<is_client_speaking, is_model_speaking, model_ws, model_state,
                   recorder, transcript, client_out, stream_pc, model_task, turn,
                   client_rx, model_rx, model_tx, connVars, engine_out, warned, call_end>>

\* a loop that goes on receiving whatever the running flag says
ModelLoopTopForever ==
    /\ model_task = "top"
    /\ model_task' = IF model_ws = "none" THEN "sleep" ELSE "recv"
    /\ UNCHANGED <<is_running, is_client_speaking, is_model_speaking, model_ws,
                   model_state, recorder, transcript, client_out, stream_pc,
                   client_task, turn, client_rx, model_rx, model_tx, connVars,
                   histVars>>

\* lines 434-438: while self.is_running; without a sidecar connection the
\* task sleeps, otherwise it receives (lines 442-445)
ModelLoopTop ==
    /\ model_task = "top"
    /\ model_task' = IF ~is_running THEN "done"
                     ELSE IF model_ws = "none" THEN "sleep" ELSE "recv"
    /\ first_end' = IF is_running THEN first_end ELSE FirstEnd(first_end, "end")
    /\ UNCHANGED <<is_running, is_client_speaking, is_model_speaking, model_ws,
                   model_state, recorder, transcript, client_out, stream_pc,
                   client_task, turn, client_rx, model_rx, model_tx, connVars,
                   engine_out, warned, call_end>>

\* a timeout handled as the end of the stream: running is cleared
ModelWakeStops ==
    /\ model_task \in {"sleep", "recv"}
    /\ model_task' = "top"
    /\ is_running' = FALSE
    /\ UNCHANGED <<is_client_speaking, is_model_speaking, model_ws,
                   model_state, recorder, transcript, client_out, stream_pc,
                   client_task, turn, client_rx, model_rx, model_tx, connVars, histVars>>

\* line 437 returns; lines 478-480: the receive timed out
ModelWake ==
    /\ model_task \in {"sleep", "recv"}
    /\ model_task' = "top"
    /\ UNCHANGED <<is_running, is_client_speaking, is_model_speaking, model_ws,
                   model_state, recorder, transcript, client_out, stream_pc,
                   client_task, turn, client_rx, model_rx, model_tx, connVars, histVars>>

\* lines 447-457: a frame from the sidecar: an empty one is skipped; a
\* non-empty one is dropped and logged as a barge-in while the client is
\* speaking, and goes to the transcoder otherwise
ModelRecv(frame) ==
    /\ model_task = "recv"
    /\ Len(model_rx) < MaxModelFrames
    /\ model_rx' = Append(model_rx, frame)
    /\ IF frame = "empty"
       THEN /\ model_task' = "top"
            /\ UNCHANGED <<transcript, is_model_speaking>>
       ELSE IF is_client_speaking
       THEN /\ transcript' = LogEvent(transcript, "barge_in")
            /\ model_task' = "top"
            /\ UNCHANGED is_model_speaking
       ELSE /\ is_model_speaking' = TRUE
            /\ model_task' = "transcode"
            /\ UNCHANGED transcript
    /\ UNCHANGED <<is_running, is_client_speaking, model_ws, model_state,
                   recorder, client_out, stream_pc, client_task, turn, client_rx,
                   model_tx, connVars, histVars>>

\* the bytes ffmpeg writes when it encodes a frame's bytes, read as 16-bit
\* PCM samples, to WebM/Opus (lines 294, 302-320)
WebmOf(frame) ==
    CASE frame = "audio" -> "webm_of_audio"
      [] frame = "text" -> "webm_of_text"
      [] frame = "handshake" -> "webm_of_handshake"
      [] OTHER -> "webm_of_unknown"

\* lines 30-34: AudioFormat, and a value that is none of its members
AudioFormats == {"webm_opus", "wav", "pcm_16", "other"}

\* lines 231-238 and 291-299: the formats ffmpeg is run for
Transcoded(format) == format \in {"webm_opus", "wav"}

\* what ffmpeg writes for a frame in the formats other than WebM/Opus
WavOf(frame) == <<"wav_of", frame>>
PcmOf(audio_data) == <<"pcm_of", audio_data>>

\* lines 216-274: transcode_to_pcm; ran tells whether ffmpeg started and
\* exited with 0; "empty" is b""
TranscodeToPcm(audio_data, input_format, ran) ==
    IF input_format = "pcm_16" THEN audio_data
    ELSE IF ~Transcoded(input_format) THEN audio_data
    ELSE IF ran THEN PcmOf(audio_data)
    ELSE "empty"

\* a transcoder that hands the input back when ffmpeg fails
TranscodeFromPcmPassing(pcm_data, output_format, ran) ==
    IF output_format = "pcm_16" THEN pcm_data
    ELSE IF ~Transcoded(output_format) THEN pcm_data
    ELSE IF ran
         THEN IF output_format = "webm_opus" THEN WebmOf(pcm_data) ELSE WavOf(pcm_data)
    ELSE pcm_data

\* lines 276-333: transcode_from_pcm; ran tells whether ffmpeg started,
\* exited with 0 and wrote something; "empty" is b""
TranscodeFromPcm(pcm_data, output_format, ran) ==
    IF output_format = "pcm_16" THEN pcm_data
    ELSE IF ~Transcoded(output_format) THEN pcm_data
    ELSE IF ran
         THEN IF output_format = "webm_opus" THEN WebmOf(pcm_data) ELSE WavOf(pcm_data)
    ELSE "empty"

\* the frame the sidecar-output task is working on
PcmData == model_rx[Len(model_rx)]

\* lines 460-465 and 476: transcode_from_pcm returns; empty bytes (the
\* transcoder failed, lines 324-333) send nothing
ModelTranscoded ==
    /\ model_task = "transcode"
    /\ \E ran \in BOOLEAN :
          IF TranscodeFromPcm(PcmData, "webm_opus", ran) # "empty"
          THEN model_task' = "send" /\ UNCHANGED is_model_speaking
          ELSE model_task' = "top" /\ is_model_speaking' = FALSE
    /\ UNCHANGED <<is_running, is_client_speaking, model_ws, model_state,
                   recorder, transcript, client_out, stream_pc, client_task,
                   turn, client_rx, model_rx, model_tx, connVars, histVars>>

\* lines 467-476: send_bytes(client_data) returns, the audio is logged
ModelSent ==
    /\ model_task = "send"
    /\ client_out' = Append(client_out, TranscodeFromPcm(PcmData, "webm_opus", TRUE))
    /\ transcript' = LogEvent(transcript, "ai_audio")
    /\ is_model_speaking' = FALSE
    /\ model_task' = "top"
    /\ UNCHANGED <<is_running, is_client_speaking, model_ws, model_state,
                   recorder, stream_pc, client_task, turn, client_rx, model_rx,
                   model_tx, connVars, histVars>>

\* how the task is ended by its receive (ConnectionClosed, lines 482-484,
\* or another exception, lines 486-488) and by a send_bytes that raised
ModelEndings(at) == IF at = "recv" THEN {"end", "error"} ELSE {"error"}

\* line 483: the only logger.warning of handle_model_to_client and of
\* process_stream, for a receive that found the sidecar connection closed
Warned(at, how, n) == IF at = "recv" /\ how = "end" THEN n + 1 ELSE n

\* a handler that clears the reference when the sidecar closes
PeerClosedCleared(at, how, ws) ==
    IF at = "recv" /\ how = "end" THEN "none" ELSE ws

\* lines 482-484: ConnectionClosed out of recv() means the sidecar closed the
\* connection; the handler breaks and keeps the reference to the closed
\* socket, and model_state is not written
PeerClosed(at, how, ws) ==
    IF at = "recv" /\ how = "end" THEN "shut" ELSE ws

\* lines 482-488: the loop is left; running is not touched
ModelClosed ==
    /\ model_task \in {"recv", "send"}
    /\ model_task' = "done"
    /\ \E how \in ModelEndings(model_task) :
          /\ first_end' = FirstEnd(first_end, how)
          /\ warned' = Warned(model_task, how, warned)
          /\ model_ws' = PeerClosed(model_task, how, model_ws)
    /\ UNCHANGED <<is_running, is_client_speaking, is_model_speaking,
                   model_state, recorder, transcript, client_out, stream_pc,
                   client_task, turn, client_rx, model_rx, model_tx, connVars,
                   engine_out, call_end>>

TaskOver(t) == t \in {"done", "cancelled"}

\* lines 531-532 and 569-571: task.cancel() asks a task that is not over to
\* end; a task that was never created is not in self.tasks
CancelTask(t) == IF t \in {"none", "done", "cancelled"} THEN t ELSE "cancelling"

\* lines 522-532: the first task is over: running is cleared and the
\* pending task is asked to end
SupervisorCancel ==
    /\ stream_pc = "streaming"
    /\ client_task = "done" \/ model_task = "done"
    /\ is_running' = FALSE
    /\ client_task' = CancelTask(client_task)
    /\ model_task' = CancelTask(model_task)
    /\ stream_pc' = "awaiting"
    /\ UNCHANGED <<is_client_speaking, is_model_speaking, model_ws, model_state,
                   recorder, transcript, client_out, turn, client_rx, model_rx,
                   model_tx, connVars, histVars>>

\* CancelledError is raised at the await where handle_client_input stands;
\* none of its handlers (lines 376-386) catches it
ClientCancelled ==
    /\ client_task = "cancelling"
    /\ client_task' = "cancelled"
    /\ UNCHANGED <<is_running, is_client_speaking, is_model_speaking, model_ws,
                   model_state, recorder, transcript, client_out, stream_pc,
                   model_task, turn, client_rx, model_rx, model_tx, connVars, histVars>>

\* the same in handle_model_to_client (handlers of lines 478-488)
ModelCancelled ==
    /\ model_task = "cancelling"
    /\ model_task' = "cancelled"
    /\ UNCHANGED <<is_running, is_client_speaking, is_model_speaking, model_ws,
                   model_state, recorder, transcript, client_out, stream_pc,
                   client_task, turn, client_rx, model_rx, model_tx, connVars, histVars>>

\* lines 533-536 and 574-575: awaiting a task returns once it is over
PendingSkipped(t) == TRUE

PendingOver(t) == t \in {"none", "done", "cancelled"}

\* lines 533-536: the cancelled task has been awaited
SupervisorAwait ==
    /\ stream_pc = "awaiting"
    /\ PendingOver(client_task) /\ PendingOver(model_task)
    /\ stream_pc' = "cleanup"
    /\ UNCHANGED <<is_running, is_client_speaking, is_model_speaking, model_ws,
                   model_state, recorder, transcript, client_out, client_task,
                   model_task, turn, client_rx, model_rx, model_tx, connVars, histVars>>

\* lines 204-214: disconnect_model
DisconnectedWsKept(ws) == ws

DisconnectedWs(ws) == "none"

DisconnectedStateKept(ws, st) == st

DisconnectedState(ws, st) == IF ws # "none" THEN "closed" ELSE st

\* line 208: close() is called on the socket model_ws holds
Closed(ws, n) == IF ws # "none" THEN n + 1 ELSE n

\* a supervisor that raises for every task that ended before it asked
StreamRaisedOnEnd(first) == first # "none"

\* lines 503-555: whether process_stream raises once a task is over.  The
\* done set of asyncio.wait (line 522) is never read and both tasks catch
\* what ends them (lines 378-386, 482-488); the body raises nothing itself
StreamRaised(first) == FALSE

\* main.py 482-511: process_stream returned (line 484, "Call completed
\* normally"; the recorder is finalized COMPLETED, lines 548-549) or raised
\* (lines 500-511; finalized ERROR)
CallEnd(raised) == IF raised THEN "error" ELSE "completed"

\* main.py 505-510: the error event and the close(1011) of a call whose
\* process_stream raised
CallEvents(sent, raised) ==
    IF raised THEN sent \o <<"streaming_error", "close_1011">> ELSE sent

\* lines 557-561: the finally block of process_stream, and its return to
\* the call endpoint
StreamFinally ==
    /\ stream_pc = "cleanup"
    /\ is_running' = FALSE
    /\ model_ws' = DisconnectedWs(model_ws)
    /\ model_state' = DisconnectedState(model_ws, model_state)
    /\ closes' = Closed(model_ws, closes)
    /\ stream_pc' = "closed"
    /\ call_end' = CallEnd(StreamRaised(first_end))
    /\ client_out' = CallEvents(client_out, StreamRaised(first_end))
    /\ UNCHANGED <<is_client_speaking, is_model_speaking, recorder, transcript,
                   client_task, model_task, turn, client_rx,
                   model_rx, model_tx, attempt, leaked, stop_pc, stops,
                   first_end, engine_out, warned>>

\* lines 566-571: stop() clears running and cancels the tasks that are not
\* done.  main.py calls it from the finally block of the call endpoint
\* (lines 531-534): process_stream has returned, or was never reached
\* because the ready message of lines 476-480 could not be sent
StopCancel ==
    /\ stop_pc = "idle"
    /\ stops < MaxStops
    /\ stream_pc \in {"created", "closed"}
    /\ is_running' = FALSE
    /\ client_task' = CancelTask(client_task)
    /\ model_task' = CancelTask(model_task)
    /\ stop_pc' = "gather"
    /\ UNCHANGED <<is_client_speaking, is_model_speaking, model_ws, model_state,
                   recorder, transcript, client_out, stream_pc, turn, client_rx,
                   model_rx, model_tx, attempt, leaked, closes, stops,
                   histVars>>

\* lines 574-580: the tasks are gathered, disconnect_model runs, stop returns
StopFinish ==
    /\ stop_pc = "gather"
    /\ PendingOver(client_task) /\ PendingOver(model_task)
    /\ model_ws' = DisconnectedWs(model_ws)
    /\ model_state' = DisconnectedState(model_ws, model_state)
    /\ closes' = Closed(model_ws, closes)
    /\ stop_pc' = "idle"
    /\ stops' = stops + 1
    /\ UNCHANGED <<is_running, is_client_speaking, is_model_speaking, recorder,
                   transcript, client_out, stream_pc, client_task, model_task,
                   turn, client_rx, model_rx, model_tx, attempt, leaked,
                   histVars>>

InitBridge == \E rec \in BOOLEAN : BridgeCreated(rec)

\* no stream is fed while the bridge is under study
FeedIdle ==
    /\ garbage = <<>>
    /\ pages = <<>>
    /\ stream = <<>>
    /\ pos = 0
    /\ split = FALSE

(***************************************************************************)
(* SessionRecorder (history.py).                                           *)
(***************************************************************************)
LogMethods == {"log_user_audio", "log_user_text", "log_ai_text", "log_ai_audio",
               "log_tool_usage", "log_error", "log_barge_in"}

\* lines 76-182: the role and the type each log_* method passes to
\* _log_event; the keys of its data dict never include "role" or "type"
RoleOf(method) ==
    CASE method \in {"log_user_audio", "log_user_text"} -> "user"
      [] method \in {"log_ai_text", "log_ai_audio"} -> "ai"
      [] method = "log_tool_usage" -> "tool"
      [] OTHER -> "system"

TypeOf(method) ==
    CASE method \in {"log_user_audio", "log_ai_audio"} -> "audio"
      [] method \in {"log_user_text", "log_ai_text"} -> "text"
      [] method = "log_tool_usage" -> "execution"
      [] method = "log_error" -> "error"
      [] OTHER -> "barge_in"

\* lines 60-74: _log_event appends one entry
LogEntry(t, role, type) == Append(t, [role |-> role, type |-> type])

IsUserText(e) == e.role = "user" /\ e.type = "text"
IsAiText(e) == e.role = "ai" /\ e.type = "text"
IsTool(e) == e.role = "tool"
IsError(e) == e.type = "error"

\* a count of every entry whose role is user
UserMessagesAnyType(t) == Len(SelectSeq(t, LAMBDA e : e.role = "user"))

\* line 223
UserMessages(t) == Len(SelectSeq(t, IsUserText))

\* lines 224-226
AiMessages(t) == Len(SelectSeq(t, IsAiText))
ToolCalls(t) == Len(SelectSeq(t, IsTool))
Errors(t) == Len(SelectSeq(t, IsError))

\* lines 216-262: export(); of its result the session id is fixed by the
\* constructor, and the summary and the times are left out
Export(t, st) ==
    [status |-> st,
     statistics |-> [user_messages |-> UserMessages(t),
                     ai_messages |-> AiMessages(t),
                     tool_calls |-> ToolCalls(t),
                     errors |-> Errors(t),
                     total_events |-> Len(t)]]

\* lines 36-56: the constructor logs connection_established
RecorderCreated ==
    /\ events = LogEntry(<<>>, "system", "connection_established")
    /\ status = "IN_PROGRESS"
    /\ session_data = "empty"
    /\ calls = [m \in LogMethods \cup {"finalize"} |-> 0]

\* lines 76-182: one log_* call
LogCall(method) ==
    /\ Len(events) <= MaxEvents
    /\ events' = LogEntry(events, RoleOf(method), TypeOf(method))
    /\ calls' = [calls EXCEPT ![method] = @ + 1]
    /\ UNCHANGED <<status, session_data>>

FinalStatuses == {"COMPLETED", "DISCONNECTED", "ERROR"}

\* lines 184-202: finalize(status)
Finalize(st) ==
    /\ Len(events) <= MaxEvents
    /\ status' = st
    /\ events' = LogEntry(events, "system", "session_ended")
    /\ session_data' = Export(events', st)
    /\ calls' = [calls EXCEPT !["finalize"] = @ + 1]

(***************************************************************************)
(* FileSessionRepository (history.py).                                     *)
(***************************************************************************)
Tenants == {"tenant_a", "tenant_b"}

\* session ids are uuid4 strings (main.py 386, conversation_manager.py 92)
SessionIds == {"s1", "s2"}

\* session data: a dict with or without the key session_id
SessionData ==
    [session_id : SessionIds, meta : {"v1", "v2"}] \cup [meta : {"v1", "v2"}]

\* the order in which json.dump writes the keys of a session dict
KeyOrder == <<"session_id", "meta">>

\* line 329: json.dump writes the dict as its key/value pairs in order
JsonDump(data) ==
    LET keys == SelectSeq(KeyOrder, LAMBDA k : k \in DOMAIN data)
    IN [i \in 1..Len(keys) |-> <<keys[i], data[keys[i]]>>]

\* lines 358, 403: json.load builds the dict from the pairs of the text
JsonLoad(text) ==
    [k \in {text[i][1] : i \in 1..Len(text)} |->
        (CHOOSE pair \in {text[i] : i \in 1..Len(text)} : pair[1] = k)[2]]

\* every tenant in one directory
TenantDirShared(tenant_id) == <<"data/history">>

\* lines 289-291: _get_tenant_dir
TenantDir(tenant_id) == <<"data/history", tenant_id>>

\* lines 323, 326: the session's file and its temporary file
FilePath(tenant_id, session_id) == <<TenantDir(tenant_id), session_id, "json">>
TempPath(tenant_id, session_id) == <<TenantDir(tenant_id), session_id, "tmp">>

\* a replace that leaves a file that exists already as it is
ReplacedIfNew(fs, tmp, path, text, now) ==
    [f \in (DOMAIN fs \ {tmp}) \cup {path} |->
        IF f \in DOMAIN fs THEN fs[f] ELSE [text |-> text, mtime |-> now]]

\* lines 327-332: the text is written to the temporary file, which then
\* replaces the session's file
Replaced(fs, tmp, path, text, now) ==
    [f \in (DOMAIN fs \ {tmp}) \cup {path} |->
        IF f = path THEN [text |-> text, mtime |-> now] ELSE fs[f]]

\* lines 327-339: a write that failed leaves what it wrote of the temporary
\* file and the session's file as it was
Abandoned(fs, tmp, now) ==
    [f \in DOMAIN fs \cup {tmp} |->
        IF f = tmp THEN [text |-> <<>>, mtime |-> now] ELSE fs[f]]

\* lines 279-287: the repository over an empty base_path
RepositoryCreated ==
    /\ dirs = {}
    /\ files = <<>>
    /\ clock = 0
    /\ result = [op |-> "none"]
    /\ saved = {}

\* lines 297-339: save_session; written tells whether the write and the
\* replace went through
SaveSession(tenant_id, data, written) ==
    /\ clock < MaxSaves
    /\ IF "session_id" \notin DOMAIN data
       THEN /\ result' = [op |-> "save", tenant |-> tenant_id, data |-> data,
                          outcome |-> "ValueError"]
            /\ UNCHANGED <<dirs, files, clock, saved>>
       ELSE /\ dirs' = dirs \cup {TenantDir(tenant_id)}
            /\ clock' = clock + 1
            /\ IF written
               THEN /\ files' = Replaced(files, TempPath(tenant_id, data.session_id),
                                         FilePath(tenant_id, data.session_id),
                                         JsonDump(data), clock')
                    /\ saved' = saved \cup {<<tenant_id, data>>}
                    /\ result' = [op |-> "save", tenant |-> tenant_id,
                                  data |-> data, outcome |-> "saved"]
               ELSE /\ files' = Abandoned(files, TempPath(tenant_id, data.session_id),
                                          clock')
                    /\ result' = [op |-> "save", tenant |-> tenant_id,
                                  data |-> data, outcome |-> "IOError"]
                    /\ UNCHANGED saved

\* lines 341-366: what get_session returns or raises
GetSession(fs, tenant_id, session_id) ==
    IF FilePath(tenant_id, session_id) \notin DOMAIN fs
    THEN [outcome |-> "FileNotFoundError"]
    ELSE [outcome |-> "found",
          value |-> JsonLoad(fs[FilePath(tenant_id, session_id)].text)]

\* line 371: the default of limit
DefaultLimit == 100

\* line 391: the *.json files of the tenant's directory
SessionFiles(fs, tenant_id) ==
    {f \in DOMAIN fs : f[1] = TenantDir(tenant_id) /\ f[3] = "json"}

\* line 394: most recently modified first
RECURSIVE ByMtime(_, _)
ByMtime(fs, paths) ==
    IF paths = {} THEN <<>>
    ELSE LET newest == CHOOSE f \in paths :
                          \A g \in paths : fs[g].mtime <= fs[f].mtime
         IN <<newest>> \o ByMtime(fs, paths \ {newest})

\* line 397: session_files[:limit]
Limited(seq, limit) == SubSeq(seq, 1, IF Len(seq) < limit THEN Len(seq) ELSE limit)

\* lines 371-421: the session_id of each entry list_sessions returns
ListSessions(ds, fs, tenant_id, limit) ==
    IF TenantDir(tenant_id) \notin ds THEN <<>>
    ELSE LET listed == Limited(ByMtime(fs, SessionFiles(fs, tenant_id)), limit)
         IN [i \in 1..Len(listed) |->
               IF "session_id" \in DOMAIN JsonLoad(fs[listed[i]].text)
               THEN JsonLoad(fs[listed[i]].text).session_id
               ELSE "None"]

\* a get_session call
GetCall(tenant_id, session_id) ==
    /\ result' = [op |-> "get", tenant |-> tenant_id, session_id |-> session_id,
                  got |-> GetSession(files, tenant_id, session_id)]
    /\ UNCHANGED <<dirs, files, clock, saved>>

\* a list_sessions call with the default limit
ListCall(tenant_id) ==
    /\ result' = [op |-> "list", tenant |-> tenant_id,
                  ids |-> ListSessions(dirs, files, tenant_id, DefaultLimit)]
    /\ UNCHANGED <<dirs, files, clock, saved>>

(***************************************************************************)
(* The call endpoint (main.py, call_endpoint) and the conversation         *)
(* manager's active_sessions (conversation_manager.py).  Two calls run     *)
(* side by side against the one module-level manager.                      *)
(***************************************************************************)
Calls == {"call1", "call2"}

\* conversation_manager.py line 92: each conversation session gets a fresh
\* uuid4, so two calls never share one
SessionOf(c) == IF c = "call1" THEN "conv1" ELSE "conv2"

ConvIds == {SessionOf(c) : c \in Calls}

\* what an awaited step of the endpoint can raise: WebSocketDisconnect,
\* ConnectionError, another Exception, or CancelledError (a BaseException)
Raises == {"disconnect", "connection", "error", "cancelled"}

\* lines 513-529: the handlers of the outer try.  CancelledError is caught
\* by neither and goes straight to the finally block
OuterHandler(exc) ==
    CASE exc = "disconnect" -> "disconnected"
      [] exc = "cancelled" -> "finally"
      [] OTHER -> "unexpected"

\* lines 486-511: the handlers of the inner try.  WebSocketDisconnect is an
\* Exception and no ConnectionError, so the second handler takes it
InnerHandler(exc) ==
    CASE exc = "connection" -> "connection_error"
      [] exc = "cancelled" -> "finally"
      [] OTHER -> "streaming_error"

\* what process_stream can raise into line 482
StreamRaises ==
    {"cancelled"} \cup
    (IF \E first \in {"none", "end", "error"} : StreamRaised(first)
     THEN {"connection", "error"} ELSE {})

Goto(c, pc) == endpoint_pc' = [endpoint_pc EXCEPT ![c] = pc]

\* an error reply inside the outer try: send_json, close, return.  Either
\* call can raise, and what was sent before stays sent
ErrorReply(c, code, close) ==
    \/ /\ call_sent' = [call_sent EXCEPT ![c] = @ \o <<code, close>>]
       /\ Goto(c, "finally")
    \/ \E exc \in Raises :
          /\ call_sent' = call_sent
          /\ Goto(c, OuterHandler(exc))
    \/ \E exc \in Raises :
          /\ call_sent' = [call_sent EXCEPT ![c] = @ \o <<code>>]
          /\ Goto(c, OuterHandler(exc))

\* a session that stays registered when recording its end failed
RemovedUnlessFailed(active, sid, failed) ==
    IF failed THEN active ELSE active \ {sid}

\* conversation_manager.py line 157: the del follows the try block, whether
\* or not finalize/export/create_task raised
Removed(active, sid, failed) == active \ {sid}

\* conversation_manager.py lines 134-160: close_session
CloseSession(sid) ==
    IF sid \in active_sessions
    THEN \E failed \in BOOLEAN :
            /\ session_status' = [session_status EXCEPT ![sid] = "COMPLETED"]
            /\ scheduled' = IF failed THEN scheduled ELSE scheduled \cup {sid}
            /\ active_sessions' = Removed(active_sessions, sid, failed)
    ELSE UNCHANGED <<session_status, scheduled, active_sessions>>

\* conversation_manager.py lines 66-71 and main.py line 38: the manager is
\* created with no active session; no call has been accepted yet
EndpointCreated ==
    /\ endpoint_pc = [c \in Calls |-> "accept"]
    /\ conversation_session = [c \in Calls |-> "none"]
    /\ audio_bridge = [c \in Calls |-> FALSE]
    /\ stop_calls = [c \in Calls |-> 0]
    /\ active_sessions = {}
    /\ recorder_status = [c \in Calls |-> "none"]
    /\ session_status = [s \in ConvIds |-> "none"]
    /\ effective_recorder = [c \in Calls |-> "none"]
    /\ call_sent = [c \in Calls |-> <<>>]
    /\ scheduled = {}
    /\ enriched = [c \in Calls |-> FALSE]

\* line 376: websocket.accept(), outside every try block
Accept(c) ==
    /\ endpoint_pc[c] = "accept"
    /\ \E ok \in BOOLEAN : Goto(c, IF ok THEN "start" ELSE "done")
    /\ UNCHANGED <<conversation_session, audio_bridge, stop_calls,
                   active_sessions, recorder_status, session_status,
                   effective_recorder, call_sent, scheduled, enriched>>

\* lines 383-405: session id, repository and recorder, then the connected
\* message
CallStart(c) ==
    /\ endpoint_pc[c] = "start"
    /\ \/ /\ recorder_status' = [recorder_status EXCEPT ![c] = "IN_PROGRESS"]
          /\ call_sent' = [call_sent EXCEPT ![c] = @ \o <<"connected">>]
          /\ Goto(c, "tenant")
       \/ \E exc \in Raises :
             /\ recorder_status' = [recorder_status EXCEPT ![c] = "IN_PROGRESS"]
             /\ call_sent' = call_sent
             /\ Goto(c, OuterHandler(exc))
       \/ /\ UNCHANGED <<recorder_status, call_sent>>
          /\ Goto(c, OuterHandler("error"))
    /\ UNCHANGED <<conversation_session, audio_bridge, stop_calls,
                   active_sessions, session_status, effective_recorder,
                   scheduled, enriched>>

\* lines 408-429: the tenant configuration is loaded, or an error reply
\* ends the call
LoadTenant(c) ==
    /\ endpoint_pc[c] = "tenant"
    /\ \/ Goto(c, "session") /\ call_sent' = call_sent
       \/ ErrorReply(c, "tenant_not_found", "close_1008")
       \/ ErrorReply(c, "config_error", "close_1011")
    /\ UNCHANGED <<conversation_session, audio_bridge, stop_calls,
                   active_sessions, recorder_status, session_status,
                   effective_recorder, scheduled, enriched>>

\* lines 431-448 and conversation_manager.py lines 73-118: create_session
\* registers the session as its last step, or raises before that
CreateSession(c) ==
    /\ endpoint_pc[c] = "session"
    /\ \/ /\ conversation_session' =
                [conversation_session EXCEPT ![c] = SessionOf(c)]
          /\ active_sessions' = active_sessions \cup {SessionOf(c)}
          /\ session_status' =
                [session_status EXCEPT ![SessionOf(c)] = "IN_PROGRESS"]
          /\ call_sent' = call_sent
          /\ Goto(c, "bridge")
       \/ /\ ErrorReply(c, "session_error", "close_1011")
          /\ UNCHANGED <<conversation_session, active_sessions, session_status>>
    /\ UNCHANGED <<audio_bridge, stop_calls, recorder_status,
                   effective_recorder, scheduled, enriched>>

\* lines 450-468: the voice settings (a failure is logged and absorbed),
\* then the AudioBridge is constructed
CreateBridge(c) ==
    /\ endpoint_pc[c] = "bridge"
    /\ \/ /\ audio_bridge' = [audio_bridge EXCEPT ![c] = TRUE]
          /\ Goto(c, "ready")
       \/ /\ audio_bridge' = audio_bridge
          /\ Goto(c, InnerHandler("error"))
    /\ UNCHANGED <<conversation_session, stop_calls, active_sessions,
                   recorder_status, session_status, effective_recorder, call_sent,
                   scheduled, enriched>>

\* lines 476-480: the ready message
SendReady(c) ==
    /\ endpoint_pc[c] = "ready"
    /\ \/ /\ call_sent' = [call_sent EXCEPT ![c] = @ \o <<"ready">>]
          /\ Goto(c, "streaming")
       \/ \E exc \in Raises :
             /\ call_sent' = call_sent
             /\ Goto(c, InnerHandler(exc))
    /\ UNCHANGED <<conversation_session, audio_bridge, stop_calls,
                   active_sessions, recorder_status, session_status,
                   effective_recorder, scheduled, enriched>>

\* lines 482-484: process_stream returns, or raises
Streamed(c) ==
    /\ endpoint_pc[c] = "streaming"
    /\ \/ Goto(c, "finally")
       \/ \E exc \in StreamRaises : Goto(c, InnerHandler(exc))
    /\ UNCHANGED <<conversation_session, audio_bridge, stop_calls,
                   active_sessions, recorder_status, session_status,
                   effective_recorder, call_sent, scheduled, enriched>>

\* lines 486-511: the two handlers of the inner try differ in the code they
\* send
InnerError(c) ==
    /\ endpoint_pc[c] \in {"connection_error", "streaming_error"}
    /\ recorder_status' = [recorder_status EXCEPT ![c] = "ERROR"]
    /\ ErrorReply(c, IF endpoint_pc[c] = "connection_error"
                     THEN "audio_service_unavailable" ELSE "streaming_error",
                  "close_1011")
    /\ UNCHANGED <<conversation_session, audio_bridge, stop_calls,
                   active_sessions, session_status, effective_recorder,
                   scheduled, enriched>>

\* lines 513-516: the client disconnected
Disconnected(c) ==
    /\ endpoint_pc[c] = "disconnected"
    /\ recorder_status' =
          [recorder_status EXCEPT
              ![c] = IF @ = "none" THEN @ ELSE "DISCONNECTED"]
    /\ Goto(c, "finally")
    /\ UNCHANGED <<conversation_session, audio_bridge, stop_calls,
                   active_sessions, session_status, effective_recorder, call_sent,
                   scheduled, enriched>>

\* lines 518-528: an unexpected exception; the reply is attempted and
\* whatever it raises is dropped
Unexpected(c) ==
    /\ endpoint_pc[c] = "unexpected"
    /\ \E reply \in {<<>>, <<"server_error">>, <<"server_error", "close_1011">>} :
          call_sent' = [call_sent EXCEPT ![c] = @ \o reply]
    /\ Goto(c, "finally")
    /\ UNCHANGED <<conversation_session, audio_bridge, stop_calls,
                   active_sessions, recorder_status, session_status,
                   effective_recorder, scheduled, enriched>>

\* lines 530-534: the bridge, when there is one, is stopped; whatever
\* stop() raises is dropped
FinallyStop(c) ==
    /\ endpoint_pc[c] = "finally"
    /\ stop_calls' = [stop_calls EXCEPT
                         ![c] = IF audio_bridge[c] THEN @ + 1 ELSE @]
    /\ Goto(c, "close")
    /\ UNCHANGED <<conversation_session, audio_bridge, active_sessions,
                   recorder_status, session_status, effective_recorder, call_sent,
                   scheduled, enriched>>

\* lines 536-545: the recorder to enrich is chosen and the conversation
\* session is closed
FinallyClose(c) ==
    /\ endpoint_pc[c] = "close"
    /\ effective_recorder' =
          [effective_recorder EXCEPT
              ![c] = IF conversation_session[c] \in active_sessions
                     THEN "session"
                     ELSE IF recorder_status[c] = "none" THEN "none"
                     ELSE "call"]
    /\ IF conversation_session[c] # "none"
       THEN CloseSession(conversation_session[c])
       ELSE UNCHANGED <<session_status, scheduled, active_sessions>>
    /\ Goto(c, "enrich")
    /\ UNCHANGED <<conversation_session, audio_bridge, stop_calls,
                   recorder_status, call_sent, enriched>>

\* lines 547-581: the chosen recorder is finalized when it still is in
\* progress, analysed and saved; a failure of the analysis or of the save
\* is logged
FinallyEnrich(c) ==
    /\ endpoint_pc[c] = "enrich"
    /\ recorder_status' =
          [recorder_status EXCEPT
              ![c] = IF effective_recorder[c] = "call" /\ @ = "IN_PROGRESS"
                     THEN "COMPLETED" ELSE @]
    /\ session_status' =
          IF /\ effective_recorder[c] = "session"
             /\ session_status[conversation_session[c]] = "IN_PROGRESS"
          THEN [session_status EXCEPT ![conversation_session[c]] = "COMPLETED"]
          ELSE session_status
    /\ \E ok \in BOOLEAN :
          enriched' = [enriched EXCEPT
                          ![c] = ok /\ effective_recorder[c] # "none"]
    /\ Goto(c, "done")
    /\ UNCHANGED <<conversation_session, audio_bridge, stop_calls,
                   active_sessions, effective_recorder, call_sent, scheduled>>

\* main.py lines 237-247: DELETE /conversation/{session_id} closes a session
\* by id (404 when it is not active)
CloseConversation(sid) ==
    /\ sid \in active_sessions
    /\ CloseSession(sid)
    /\ UNCHANGED <<endpoint_pc, conversation_session, audio_bridge, stop_calls,
                   recorder_status, effective_recorder, call_sent, enriched>>

\* no recorder, no repository and no call are under study
SessIdle == RecorderCreated /\ RepositoryCreated /\ EndpointCreated

(***************************************************************************)
(* Specifications.                                                         *)
(***************************************************************************)
InitOgg == InitParser /\ InitFeed /\ BridgeCreated(TRUE) /\ waited = 0 /\ SessIdle

NextOgg ==
    \/ FeedChunk /\ UNCHANGED <<bridgeVars, waited, sessVars>>
    \/ FeedRest /\ UNCHANGED <<bridgeVars, waited, sessVars>>

SpecOgg == InitOgg /\ [][NextOgg]_vars

InitBridgeSpec == InitParser /\ FeedIdle /\ InitBridge /\ waited = 0 /\ SessIdle

\* what the bridge leaves alone: the parser, its byte source and, where
\* time is not followed, the clock
oggVars == <<parserVars, feedVars>>
idleVars == <<oggVars, waited, sessVars>>

NextBridge ==
    \/ ConnectAttempt /\ UNCHANGED idleVars
    \/ ConnectOpened /\ UNCHANGED idleVars
    \/ ConnectFailed /\ UNCHANGED idleVars
    \/ HandshakeSent /\ UNCHANGED idleVars
    \/ HandshakeFailed /\ UNCHANGED idleVars
    \/ ProcessStreamStart /\ UNCHANGED idleVars
    \/ ClientLoopTop /\ UNCHANGED idleVars
    \/ ClientTimeout /\ UNCHANGED idleVars
    \/ ClientDisconnect /\ UNCHANGED idleVars
    \/ \E kind \in ClientTextKinds :
          ClientText(kind, ShortReplies) /\ UNCHANGED idleVars
    \/ ClientBytes /\ UNCHANGED idleVars
    \/ ClientTurnStep /\ UNCHANGED idleVars
    \/ ClientTurnFailed /\ UNCHANGED idleVars
    \/ ModelLoopTop /\ UNCHANGED idleVars
    \/ ModelWake /\ UNCHANGED idleVars
    \/ \E frame \in {"empty", "audio"} : ModelRecv(frame) /\ UNCHANGED idleVars
    \/ ModelTranscoded /\ UNCHANGED idleVars
    \/ ModelSent /\ UNCHANGED idleVars
    \/ ModelClosed /\ UNCHANGED idleVars
    \/ SupervisorCancel /\ UNCHANGED idleVars
    \/ ClientCancelled /\ UNCHANGED idleVars
    \/ ModelCancelled /\ UNCHANGED idleVars
    \/ SupervisorAwait /\ UNCHANGED idleVars
    \/ StreamFinally /\ UNCHANGED idleVars
    \/ StopCancel /\ UNCHANGED idleVars
    \/ StopFinish /\ UNCHANGED idleVars

SpecBridge == InitBridgeSpec /\ [][NextBridge]_vars

\* The sidecar's side of the bridge, with time.  The client sends no frame;
\* the sidecar sends frames of every kind of its tag scheme (first byte
\* 0x01 audio, 0x02 text, 0x00 handshake, any other), or nothing
SidecarFrames == {"empty", "audio", "text", "handshake", "unknown"}

\* lines 437 and 444: a sleep or a receive that timed out took one second;
\* the count stops at the grace period
Tick == waited' = IF waited < GraceSeconds THEN waited + 1 ELSE waited

NextFrames ==
    \/ ConnectAttempt /\ UNCHANGED idleVars
    \/ ConnectOpened /\ UNCHANGED idleVars
    \/ ConnectFailed /\ UNCHANGED idleVars
    \/ HandshakeSent /\ UNCHANGED idleVars
    \/ HandshakeFailed /\ UNCHANGED idleVars
    \/ ProcessStreamStart /\ UNCHANGED idleVars
    \/ ClientLoopTop /\ UNCHANGED idleVars
    \/ ClientTimeout /\ UNCHANGED idleVars
    \/ ClientDisconnect /\ UNCHANGED idleVars
    \/ ModelLoopTop /\ UNCHANGED idleVars
    \/ ModelWake /\ Tick /\ UNCHANGED <<oggVars, sessVars>>
    \/ \E frame \in SidecarFrames : ModelRecv(frame) /\ UNCHANGED idleVars
    \/ ModelTranscoded /\ UNCHANGED idleVars
    \/ ModelSent /\ UNCHANGED idleVars
    \/ ModelClosed /\ UNCHANGED idleVars
    \/ SupervisorCancel /\ UNCHANGED idleVars
    \/ ClientCancelled /\ UNCHANGED idleVars
    \/ ModelCancelled /\ UNCHANGED idleVars
    \/ SupervisorAwait /\ UNCHANGED idleVars
    \/ StreamFinally /\ UNCHANGED idleVars
    \/ StopCancel /\ UNCHANGED idleVars
    \/ StopFinish /\ UNCHANGED idleVars

SpecFrames == InitBridgeSpec /\ [][NextFrames]_vars

\* The client's side of the bridge up to the end of process_stream: text
\* frames of every kind, with replies of several chunks, while the sidecar
\* sends nothing
NextTurns ==
    \/ ConnectAttempt /\ UNCHANGED idleVars
    \/ ConnectOpened /\ UNCHANGED idleVars
    \/ ConnectFailed /\ UNCHANGED idleVars
    \/ HandshakeSent /\ UNCHANGED idleVars
    \/ HandshakeFailed /\ UNCHANGED idleVars
    \/ ProcessStreamStart /\ UNCHANGED idleVars
    \/ ClientLoopTop /\ UNCHANGED idleVars
    \/ ClientTimeout /\ UNCHANGED idleVars
    \/ ClientDisconnect /\ UNCHANGED idleVars
    \/ \E kind \in ClientTextKinds :
          ClientTextUpTo(kind, LongReplies, MaxTurnMsgs) /\ UNCHANGED idleVars
    \/ ClientTurnStep /\ UNCHANGED idleVars
    \/ ClientTurnFailed /\ UNCHANGED idleVars
    \/ ModelLoopTop /\ UNCHANGED idleVars
    \/ ModelWake /\ UNCHANGED idleVars
    \/ ModelClosed /\ UNCHANGED idleVars
    \/ SupervisorCancel /\ UNCHANGED idleVars
    \/ ClientCancelled /\ UNCHANGED idleVars
    \/ ModelCancelled /\ UNCHANGED idleVars
    \/ SupervisorAwait /\ UNCHANGED idleVars
    \/ StreamFinally /\ UNCHANGED idleVars

SpecTurns == InitBridgeSpec /\ [][NextTurns]_vars

(***************************************************************************)
(* What an Ogg reader must see in a stream, told from the pages' segment   *)
(* tables alone (the Ogg lacing rule), for the claims below.               *)
(***************************************************************************)
\* packets of the lacing values lac whose body starts at byte cur of the
\* stream's bodies; start is where the packet being assembled began
RECURSIVE PacketsOf(_, _, _)
PacketsOf(lac, cur, start) ==
    IF lac = <<>> THEN <<>>
    ELSE IF Head(lac) < LacingMax
    THEN <<BodyBytes(start, cur + Head(lac) - start)>>
             \o PacketsOf(Tail(lac), cur + Head(lac), cur + Head(lac))
    ELSE PacketsOf(Tail(lac), cur + Head(lac), start)

LogicalPackets(ps) == PacketsOf(Flatten(ps), 0, 0)

\* bytes of the packet the pages ps leave unterminated
RECURSIVE PendingOf(_, _, _)
PendingOf(lac, cur, start) ==
    IF lac = <<>> THEN BodyBytes(start, cur - start)
    ELSE IF Head(lac) < LacingMax
    THEN PendingOf(Tail(lac), cur + Head(lac), cur + Head(lac))
    ELSE PendingOf(Tail(lac), cur + Head(lac), start)

PendingBytes(ps) == PendingOf(Flatten(ps), 0, 0)

IsNonEmpty(p) == p # <<>>

NonEmpty(ps) == SelectSeq(ps, IsNonEmpty)

HasCapture(s) == \E i \in 1..Len(s) : i + 3 <= Len(s) /\ SubSeq(s, i, i + 3) = OggS

IsSuffix(a, b) == Len(a) <= Len(b) /\ Drop(b, Len(b) - Len(a)) = a

\* the pages wholly fed so far, and the stream offset where they end
DoneCount ==
    Cardinality({k \in 1..Len(pages) : Len(garbage) + PagesLen(Take(pages, k)) <= pos})

DonePages == Take(pages, DoneCount)

DoneLen == IF pos < Len(garbage) THEN pos ELSE Len(garbage) + PagesLen(DonePages)

AllFed == pos = Len(stream)

\* a segment table that is a run of 255s closed by one entry below 255
RunPage(t) ==
    /\ Len(t) >= 2
    /\ \A i \in 1..(Len(t) - 1) : t[i] = LacingMax
    /\ t[Len(t)] < LacingMax

(***************************************************************************)
(* C1. For a well-formed stream of at least 3 packets, the output omits    *)
(* exactly the first two packets in arrival order and holds every later    *)
(* one unchanged and in order.  (Stated as the claim states it: every      *)
(* packet of the stream counts, also a packet of length zero.)             *)
(***************************************************************************)
C1_OmitsFirstTwo ==
    (garbage = <<>> /\ AllFed /\ Len(LogicalPackets(pages)) >= 3)
        => out = Drop(LogicalPackets(pages), HeaderSkip)

(***************************************************************************)
(* C2. Chunking invariance as claimed: feeding the bytes in pieces gives   *)
(* the output of feeding them in one call to a fresh parser, and leaves    *)
(* the same buffer, partial_packet and packets_sent.                       *)
(***************************************************************************)
C2_SameOutputAndState ==
    LET r == ProcessOnce(Take(stream, pos))
    IN /\ out = r.packets
       /\ buffer = r.buffer
       /\ partial_packet = r.partial
       /\ packets_sent = r.sent

(***************************************************************************)
(* C2, amended.  Feeding the bytes in pieces gives the output of feeding   *)
(* them in one call to a fresh parser and leaves the same partial_packet   *)
(* and packets_sent; the buffer of the one-call parser is a suffix of the  *)
(* buffer of the parser fed in pieces, which may still hold garbage bytes  *)
(* in front of it.                                                         *)
(***************************************************************************)
C2_ChunkingInvariance ==
    LET r == ProcessOnce(Take(stream, pos))
    IN /\ out = r.packets
       /\ completed = r.completed
       /\ partial_packet = r.partial
       /\ packets_sent = r.sent
       /\ IsSuffix(r.buffer, buffer)

C2_Witness == AllFed /\ split /\ out # <<>> /\ garbage # <<>>

(***************************************************************************)
(* C3. No partial packet: while a page is not wholly buffered, process     *)
(* returns nothing from it and keeps its bytes; the output is at every     *)
(* moment the one-call output of the pages wholly fed, and every packet    *)
(* returned is a whole packet of the stream.                               *)
(***************************************************************************)
C3_NoPartialPacket ==
    garbage = <<>> =>
        /\ out = ProcessOnce(Take(stream, DoneLen)).packets
        /\ buffer = SubSeq(stream, DoneLen + 1, pos)
        /\ \A i \in 1..Len(out) :
              \E k \in 1..Len(LogicalPackets(pages)) : out[i] = LogicalPackets(pages)[k]

C3_Witness ==
    /\ garbage = <<>>
    /\ Len(pages) = 1
    /\ split
    /\ AllFed
    /\ last # <<>>

(***************************************************************************)
(* C4. A single page whose segment table is a run of 255s closed by one    *)
(* entry below 255 completes exactly one packet: nothing before the page   *)
(* is whole, and then one packet whose bytes are the page body.            *)
(***************************************************************************)
C4_RunPageOnePacket ==
    (garbage = <<>> /\ Len(pages) = 1 /\ RunPage(pages[1])) =>
        IF AllFed
        THEN /\ completed = <<SubSeq(stream, HeaderSize + Len(pages[1]) + 1, Len(stream))>>
             /\ Len(completed[1]) = SumSeq(pages[1])
             /\ packets_sent = 1
             /\ partial_packet = <<>>
        ELSE completed = <<>> /\ packets_sent = 0 /\ partial_packet = <<>>

C4_Witness ==
    /\ garbage = <<>>
    /\ Len(pages) = 1
    /\ RunPage(pages[1])
    /\ AllFed
    /\ Len(completed) = 1

(***************************************************************************)
(* C5. A packet that spans pages is carried over in partial_packet and    *)
(* completed exactly once, by the first entry below 255 of a later page:   *)
(* the packets completed so far are the non-empty packets of the pages     *)
(* wholly fed, and partial_packet holds the bytes of the packet those      *)
(* pages leave open.                                                       *)
(***************************************************************************)
C5_SpanningPacket ==
    garbage = <<>> =>
        /\ completed = NonEmpty(LogicalPackets(DonePages))
        /\ partial_packet = PendingBytes(DonePages)

C5_Witness ==
    /\ garbage = <<>>
    /\ carried
    /\ AllFed
    /\ partial_packet = <<>>
    /\ \E i \in 1..Len(completed) : Len(completed[i]) >= LacingMax

(***************************************************************************)
(* C6. Resynchronization: garbage without the capture pattern, followed   *)
(* by well-formed pages, yields exactly what the pages alone yield.        *)
(***************************************************************************)
C6_Resync ==
    (garbage # <<>> /\ ~HasCapture(garbage) /\ AllFed) =>
        LET r == ProcessOnce(PagesBytes(pages, 0))
        IN /\ out = r.packets
           /\ completed = r.completed
           /\ packets_sent = r.sent
           /\ partial_packet = r.partial

C6_Witness ==
    /\ garbage # <<>>
    /\ ~HasCapture(garbage)
    /\ AllFed
    /\ out # <<>>

(***************************************************************************)
(* C7. As claimed: after every process call, a buffer without a candidate  *)
(* capture byte holds at most 3 bytes, and after garbage followed by       *)
(* complete pages the buffer is empty.                                     *)
(***************************************************************************)
C7_MinimalBuffer ==
    /\ (\A i \in 1..Len(buffer) : buffer[i] # CapO) => Len(buffer) <= KeepTail
    /\ (~HasCapture(garbage) /\ AllFed) => buffer = <<>>

(***************************************************************************)
(* C7, amended.  After every process call the buffer holds fewer than 27   *)
(* bytes or begins with the capture pattern of a page that is not whole    *)
(* yet; a call that sees at least 27 buffered bytes without capture        *)
(* pattern and without candidate byte keeps exactly the last 3; after      *)
(* garbage followed by complete pages the buffer is empty.                 *)
(***************************************************************************)
C7_UnresolvedPrefix ==
    /\ [](/\ \/ Len(buffer) < HeaderSize
             \/ IsCapture(buffer) /\ (HeaderShort(buffer) \/ PageShort(buffer))
          /\ (~HasCapture(garbage) /\ AllFed) => buffer = <<>>)
    /\ [][LET b == buffer \o SubSeq(stream, pos + 1, pos')
          IN (Len(b) >= HeaderSize /\ ~IsCapture(b) /\ CandidateOs(b) = {})
                => buffer' = SubSeq(b, Len(b) - KeepTail + 1, Len(b))]_vars

C7_Witness ==
    /\ garbage # <<>>
    /\ ~HasCapture(garbage)
    /\ AllFed
    /\ split
    /\ completed # <<>>
    /\ buffer = <<>>

(***************************************************************************)
(* C8. A zero-length packet is a completed packet like any other: it      *)
(* increments the packet counter, so the counter is the number of packets  *)
(* of the pages wholly fed.                                                *)
(***************************************************************************)
C8_ZeroLengthCounted ==
    garbage = <<>> => packets_sent = Len(LogicalPackets(DonePages))

(***************************************************************************)
(* The barge-in flag.  No statement of the bridge assigns                  *)
(* is_client_speaking after the constructor, so the drop branch of         *)
(* handle_model_to_client (lines 451-455) is never taken.                  *)
(***************************************************************************)
BridgeNeverSpeaking ==
    /\ is_client_speaking = FALSE
    /\ \A i \in 1..Len(transcript) : transcript[i] # "barge_in"

(***************************************************************************)
(* C10. After a client audio chunk has been taken by the client-input      *)
(* task, client_speaking is true.                                          *)
(***************************************************************************)
C10_SpeakingAfterAudio ==
    (client_rx # <<>> /\ client_rx[Len(client_rx)] = "bytes" /\ client_task = "top")
        => is_client_speaking

(***************************************************************************)
(* C11. Teardown of process_stream: once the first task is over, the       *)
(* other task is cancelled and its cancellation is awaited before the      *)
(* sidecar connection is closed; process_stream never closes the           *)
(* connection while one of its tasks is still running.                     *)
(***************************************************************************)
TasksOver == TaskOver(client_task) /\ TaskOver(model_task)

StopReturned == stops > 0 /\ stop_pc = "idle"

NoTaskRunning ==
    /\ client_task \in {"none", "done", "cancelled"}
    /\ model_task \in {"none", "done", "cancelled"}

TornDown == stream_pc = "closed" \/ StopReturned

Connecting == stream_pc \in {"connecting", "handshake", "retry"}

C14_BoundedAttempts ==
    /\ [](attempt <= max_attempts /\ (attempt > 0 <=> Connecting))
    /\ [][attempt' # attempt =>
            \/ /\ attempt' = attempt + 1
               /\ attempt < max_attempts
               /\ stream_pc \in {"created", "retry"}
               /\ model_state \in {"disconnected", "error"}
            \/ attempt' = 0 /\ stream_pc' = "returned"]_vars
    /\ [][(model_state' = "connected" /\ model_state # "connected") =>
            stream_pc' = "returned" /\ model_ws' = "open"]_vars
    /\ [][(stream_pc' = "returned" /\ stream_pc # "returned") =>
            \/ model_state' = "connected"
            \/ /\ attempt = max_attempts
               /\ model_state' = "error"
               /\ model_ws' = "none"]_vars
    /\ [][(~Connecting /\ stream_pc # "created") => ~Connecting']_vars

C14_Witness ==
    /\ stream_pc = "returned"
    /\ model_state = "error"
    /\ model_ws = "none"

(***************************************************************************)
(* C15. When connect_model has failed, the session is aborted before any   *)
(* bridge task is started: the bridge never runs and neither the           *)
(* client-input task nor the sidecar-output task exists.                   *)
(***************************************************************************)
ConnectHasFailed == ~Connecting /\ stream_pc # "created" /\ model_state = "error"

C15_FailedConnectAborts ==
    ConnectHasFailed =>
        /\ ~is_running
        /\ client_task = "none"
        /\ model_task = "none"

(***************************************************************************)
(* C16. The link state is Connected only after a first frame has been      *)
(* received from the sidecar.                                              *)
(***************************************************************************)
C16_ConnectedAfterFrame == model_state = "connected" => model_rx # <<>>

(***************************************************************************)
(* C17. No failed connection attempt leaves an open sidecar socket         *)
(* behind: when connect_model retries or returns, every socket opened by   *)
(* an attempt that failed has been closed.                                 *)
(***************************************************************************)
C17_NoSocketLeftOpen == leaked = 0

(***************************************************************************)
(* C18. Until connect_model has returned and the tasks are started, the    *)
(* client has sent no message to the sidecar.                              *)
(***************************************************************************)
C18_NothingSentDuringConnect ==
    stream_pc \in {"created", "connecting", "handshake", "retry", "returned"}
        => model_tx = <<>>

(***************************************************************************)
(* C19. No client audio is discarded: when process_stream has ended,       *)
(* every binary frame received from the client has been sent on to the     *)
(* sidecar as an audio frame.                                              *)
(***************************************************************************)
RECURSIVE Count(_, _)
Count(seq, x) ==
    IF seq = <<>> THEN 0
    ELSE (IF Head(seq) = x THEN 1 ELSE 0) + Count(Tail(seq), x)

C19_ClientAudioRelayed ==
    stream_pc = "closed" => Count(model_tx, "audio") = Count(client_rx, "bytes")

(***************************************************************************)
(* C20. End-to-end echo: with a sidecar that sends back exactly the audio  *)
(* frames it was sent, when process_stream has ended the client has been   *)
(* sent one audio frame for every binary frame it sent, and no barge-in    *)
(* is recorded.                                                            *)
(***************************************************************************)
SidecarEchoes == Count(model_rx, "audio") = Count(model_tx, "audio")

C20_EchoReachesClient ==
    (stream_pc = "closed" /\ SidecarEchoes) =>
        /\ Count(client_out, WebmOf("audio")) = Count(client_rx, "bytes")
        /\ Count(transcript, "barge_in") = 0

(***************************************************************************)
(* The sidecar's tag scheme.  A frame stands for its bytes, first byte     *)
(* included: forwarding a frame "tagged identically" sends the frame as    *)
(* it was received.                                                        *)
(***************************************************************************)
SentToClient(m) == \E i \in 1..Len(client_out) : client_out[i] = m

FrameHandled(frame) ==
    /\ model_rx # <<>>
    /\ PcmData = frame
    /\ model_task = "top"

(***************************************************************************)
(* C21. An Audio-tagged frame received from the sidecar while              *)
(* client_speaking is false is forwarded to the client as one binary       *)
(* message, the tag byte 0x01 followed by the unchanged payload: what the  *)
(* client has been sent once the frame is handled is the frame as          *)
(* received, never a re-encoding of it.                                    *)
(***************************************************************************)
C21_AudioForwardedTagged ==
    /\ ~SentToClient(WebmOf("audio"))
    /\ (FrameHandled("audio") /\ ~is_client_speaking /\ client_out # <<>>)
          => SentToClient("audio")

(***************************************************************************)
(* C22. A Text-tagged (0x02) frame is never forwarded as audio bytes:      *)
(* what the client has been sent once the frame is handled is a            *)
(* transcript JSON event.                                                  *)
(***************************************************************************)
C22_TextAsTranscript ==
    /\ ~SentToClient(WebmOf("text"))
    /\ (FrameHandled("text") /\ client_out # <<>>) => SentToClient("transcript")

(***************************************************************************)
(* C23. A frame tagged Handshake (0x00) or carrying an unrecognized tag    *)
(* is never forwarded to the client in any form, and handling it leaves    *)
(* the sidecar-output task and the session running.                        *)
(***************************************************************************)
C23_OtherTagsOnlyCounted ==
    /\ ~SentToClient(WebmOf("handshake"))
    /\ ~SentToClient(WebmOf("unknown"))
    /\ ~SentToClient("handshake")
    /\ ~SentToClient("unknown")

(***************************************************************************)
(* C24. A receive timeout in steady state, of the client receive or of     *)
(* the sidecar receive, is a no-op retry: the step changes no bridge       *)
(* state (running flag, link state, speaking flags), sends nothing and     *)
(* ends no task, and the loop then re-checks running and receives again.   *)
(***************************************************************************)
ClientTimedOut ==
    client_task = "recv" /\ client_task' # client_task /\ client_rx' = client_rx
      /\ client_task' \notin {"done", "cancelling"}

ModelTimedOut ==
    model_task = "recv" /\ model_task' # model_task /\ model_rx' = model_rx
      /\ model_task' \notin {"done", "cancelling"}

C24_TimeoutIsNoOp ==
    /\ [][(ClientTimedOut \/ ModelTimedOut) =>
             /\ UNCHANGED <<is_running, is_client_speaking, is_model_speaking,
                            model_ws, model_state, stream_pc, recorder>>
             /\ UNCHANGED <<client_out, model_tx, transcript, warned, first_end>>
             /\ ClientTimedOut => (client_task' = "top" /\ UNCHANGED model_task)
             /\ ModelTimedOut => (model_task' = "top" /\ UNCHANGED client_task)]_vars
    /\ [][(client_task = "top" /\ client_task' # client_task /\ is_running) =>
             client_task' \in {"recv", "cancelling"}]_vars
    /\ [][(model_task = "top" /\ model_task' # model_task /\ is_running
             /\ model_ws # "none") =>
             model_task' \in {"recv", "cancelling"}]_vars

C24_Witness ==
    /\ waited = GraceSeconds
    /\ stream_pc = "streaming"
    /\ is_running
    /\ model_state = "connected"
    /\ model_task = "recv"
    /\ model_rx = <<>>
    /\ client_out = <<>>

(***************************************************************************)
(* C25. Mid-stream closure of either transport (a client disconnect        *)
(* message or transport closure, the sidecar connection closed) ends the   *)
(* corresponding task and thereby the whole session as an ordinary end:    *)
(* the supervisor can always take the session on to its teardown,          *)
(* process_stream returns without raising, and no error event is sent to   *)
(* the client.                                                             *)
(***************************************************************************)
EndedByClosure == first_end = "end"

ErrorEventsSent ==
    Count(client_out, "streaming_error") + Count(client_out, "error")

TeardownStep ==
    (SupervisorCancel \/ ClientCancelled \/ ModelCancelled \/ SupervisorAwait
       \/ StreamFinally) /\ UNCHANGED idleVars

C25_ClosureIsOrdinaryEnd ==
    /\ (EndedByClosure /\ stream_pc = "streaming") =>
          (client_task = "done" \/ model_task = "done")
    /\ (EndedByClosure /\ stream_pc \in {"streaming", "awaiting", "cleanup"}) =>
          ENABLED TeardownStep
    /\ (EndedByClosure /\ stream_pc = "closed") =>
          /\ call_end = "completed"
          /\ TasksOver
          /\ ErrorEventsSent = Count(engine_out, "error") - Count(turn, "error")

C25_Witness ==
    /\ stream_pc = "closed"
    /\ EndedByClosure
    /\ warned = 1
    /\ client_task = "cancelled"
    /\ call_end = "completed"

(***************************************************************************)
(* C26. A transcoding process that fails to start is fatal to the          *)
(* session: the bridge does not go on streaming after it, the session is   *)
(* terminated and the client is sent an error event.  The step in which    *)
(* transcode_from_pcm comes back without output is not followed by the     *)
(* loop top with running still true.                                       *)
(***************************************************************************)
TranscoderFailed ==
    model_task = "transcode" /\ model_task' \notin {"transcode", "send", "cancelling"}

C26_TranscoderFailureFatal ==
    [][TranscoderFailed => ~(model_task' = "top" /\ is_running')]_vars

(***************************************************************************)
(* C27. No error of a background task is silently lost: the supervisor     *)
(* observes how the task that stopped first ended, and the final           *)
(* disposition of the session depends on it: when process_stream is over,  *)
(* the call has ended as an error exactly when that task ended with one,   *)
(* and the teardown has released the tasks and the sidecar socket either   *)
(* way.                                                                    *)
(***************************************************************************)
C27_FirstEndingDecides ==
    stream_pc = "closed" =>
        /\ (call_end = "error") <=> (first_end = "error")
        /\ TasksOver
        /\ model_ws = "none"

(***************************************************************************)
(* C28. A malformed or unexpected client text frame (invalid JSON, valid   *)
(* JSON that is not an object, an object whose type is not "message") is   *)
(* absorbed: the step that receives it leaves the running flag as it was   *)
(* and takes the client-input task back to its loop top; it ends neither   *)
(* the task nor the session.                                               *)
(***************************************************************************)
UnexpectedTextReceived ==
    /\ Len(client_rx') = Len(client_rx) + 1
    /\ client_rx'[Len(client_rx')] \in {"invalid_json", "non_object_json", "not_message"}

C28_MalformedTextAbsorbed ==
    [][UnexpectedTextReceived =>
         /\ UNCHANGED <<is_running, first_end, client_out>>
         /\ client_task' = "top"]_vars

(***************************************************************************)
(* C29. For a client text frame {type: message, content} the content is    *)
(* forwarded to the conversation engine, and the streamed reply is         *)
(* relayed in the order produced: a response_part event for each text      *)
(* chunk, an error event for an error chunk, nothing for a chunk of any    *)
(* other type.  What the client has been sent, followed by the events due  *)
(* for the chunks still to come, is the events due for everything the      *)
(* engine streamed; a turn that is over has nothing left to relay; and     *)
(* the engine is asked only for message frames.                            *)
(***************************************************************************)
EventsDue(chunk) ==
    CASE chunk = "text" -> <<"response_part">>
      [] chunk = "error" -> <<"error">>
      [] OTHER -> <<>>

RECURSIVE AllEventsDue(_)
AllEventsDue(chunks) ==
    IF chunks = <<>> THEN <<>>
    ELSE EventsDue(Head(chunks)) \o AllEventsDue(Tail(chunks))

GraceExpired == waited >= GraceSeconds /\ Count(model_rx, "audio") = 0

C30_WatchdogWarnsOnce ==
    /\ warned <= 1
    /\ (stream_pc = "streaming" /\ model_task \in {"top", "recv", "sleep"}
          /\ GraceExpired) => warned = 1

\* a recorder alone: any sequence of log_* and finalize calls
InitRecorder ==
    /\ InitParser /\ FeedIdle /\ BridgeCreated(TRUE) /\ waited = 0
    /\ RecorderCreated /\ RepositoryCreated /\ EndpointCreated

recIdleVars == <<oggVars, bridgeVars, waited, repoVars, callVars>>

NextRecorder ==
    \/ \E method \in LogMethods : LogCall(method) /\ UNCHANGED recIdleVars
    \/ \E st \in FinalStatuses : Finalize(st) /\ UNCHANGED recIdleVars

SpecRecorder == InitRecorder /\ [][NextRecorder]_vars

(***************************************************************************)
(* C31. After any sequence of log_* calls, export() reports statistics     *)
(* equal to the transcript contents: user_messages is the number of        *)
(* log_user_text calls, ai_messages of log_ai_text calls, tool_calls of    *)
(* log_tool_usage calls, errors of log_error calls, and total_events the   *)
(* length of the transcript (every call, the constructor's entry and       *)
(* finalize's included); audio and barge-in entries count in none of the   *)
(* first four.                                                             *)
(***************************************************************************)
RECURSIVE SumCalls(_)
SumCalls(methods) ==
    IF methods = {} THEN 0
    ELSE LET m == CHOOSE x \in methods : TRUE
         IN calls[m] + SumCalls(methods \ {m})

C31_ExportStatistics ==
    LET stats == Export(events, status).statistics
    IN /\ stats.user_messages = calls["log_user_text"]
       /\ stats.ai_messages = calls["log_ai_text"]
       /\ stats.tool_calls = calls["log_tool_usage"]
       /\ stats.errors = calls["log_error"]
       /\ stats.total_events = 1 + SumCalls(DOMAIN calls)
       /\ stats.total_events = Len(events)
       /\ calls["finalize"] > 0 =>
             session_data.statistics.total_events <= Len(events)

C31_Witness ==
    /\ calls["log_user_text"] = 1
    /\ calls["log_user_audio"] = 1
    /\ calls["log_barge_in"] = 1
    /\ Export(events, status).statistics.user_messages = 1
    /\ Len(events) = 4

\* a repository alone: any sequence of saves, gets and lists
InitRepository ==
    /\ InitParser /\ FeedIdle /\ BridgeCreated(TRUE) /\ waited = 0
    /\ RecorderCreated /\ RepositoryCreated /\ EndpointCreated

repoIdleVars == <<oggVars, bridgeVars, waited, recVars, callVars>>

NextRepository ==
    \/ \E tenant_id \in Tenants, data \in SessionData, written \in BOOLEAN :
          SaveSession(tenant_id, data, written) /\ UNCHANGED repoIdleVars
    \/ \E tenant_id \in Tenants, session_id \in SessionIds :
          GetCall(tenant_id, session_id) /\ UNCHANGED repoIdleVars
    \/ \E tenant_id \in Tenants : ListCall(tenant_id) /\ UNCHANGED repoIdleVars

SpecRepository == InitRepository /\ [][NextRepository]_vars

(***************************************************************************)
(* C32. Save/get round trip: right after save_session(tenant, data) has    *)
(* succeeded, get_session(tenant, data.session_id) returns data and        *)
(* list_sessions(tenant) contains that session_id, whatever was stored     *)
(* under the id before; a save_session without a session_id fails with an  *)
(* error and stores nothing.                                               *)
(***************************************************************************)
InSeq(seq, x) == \E i \in 1..Len(seq) : seq[i] = x

JustSaved == result.op = "save" /\ result.outcome = "saved"

C32_SaveGetRoundTrip ==
    /\ [](JustSaved =>
            /\ GetSession(files, result.tenant, result.data.session_id)
                  = [outcome |-> "found", value |-> result.data]
            /\ InSeq(ListSessions(dirs, files, result.tenant, DefaultLimit),
                     result.data.session_id))
    /\ []((result.op = "save" /\ "session_id" \notin DOMAIN result.data) =>
            result.outcome = "ValueError")
    /\ [][(result'.op = "save" /\ result' # result /\ result'.outcome = "ValueError")
            => UNCHANGED <<dirs, files>>]_vars

C32_Witness ==
    /\ JustSaved
    /\ clock = 2
    /\ Cardinality({sv \in saved : sv[1] = result.tenant
                       /\ sv[2].session_id = result.data.session_id}) = 2

(***************************************************************************)
(* C33. Tenant isolation of the session repository: for tenants A # B,     *)
(* after any sequence of saves, list_sessions(A) and get_session(A, id)    *)
(* return only sessions that were saved under tenant A; a session saved    *)
(* under B only is never visible through A.                                *)
(***************************************************************************)
SavedUnder(tenant_id) == {sv[2] : sv \in {x \in saved : x[1] = tenant_id}}

GetIsolated(tenant_id, got) ==
    got.outcome = "found" => got.value \in SavedUnder(tenant_id)

ListIsolated(tenant_id, ids) ==
    \A i \in 1..Len(ids) :
        \E data \in SavedUnder(tenant_id) : data.session_id = ids[i]

C33_TenantIsolation ==
    /\ \A a \in Tenants :
          /\ \A id \in SessionIds : GetIsolated(a, GetSession(files, a, id))
          /\ ListIsolated(a, ListSessions(dirs, files, a, DefaultLimit))
    /\ result.op = "get" => GetIsolated(result.tenant, result.got)
    /\ result.op = "list" => ListIsolated(result.tenant, result.ids)

C33_Witness ==
    /\ SavedUnder("tenant_a") = {[session_id |-> "s1", meta |-> "v1"]}
    /\ SavedUnder("tenant_b") = {[session_id |-> "s2", meta |-> "v2"]}
    /\ result.op = "list"
    /\ result.tenant = "tenant_a"
    /\ result.ids = <<"s1">>

\* the steps a streaming task takes by itself: its timeouts are armed by
\* asyncio.wait_for(..., timeout=1.0) (lines 348-351, 442-445) and
\* asyncio.sleep(1) (line 437), and the event loop runs a task that is
\* ready; a reply being streamed and a transcoder that was started are
\* taken to come to an end
ClientLoopStep ==
    (ClientLoopTop \/ ClientTimeout \/ ClientTurnStep) /\ UNCHANGED idleVars

ModelLoopStep ==
    (ModelLoopTop \/ ModelWake \/ ModelTranscoded \/ ModelSent) /\ UNCHANGED idleVars

\* the bridge with tasks that keep taking their steps; nothing is assumed
\* of the supervisor, of stop() or of the peers
SpecLoops ==
    /\ InitBridgeSpec /\ [][NextBridge]_vars
    /\ WF_vars(ClientLoopStep) /\ WF_vars(ModelLoopStep)

(***************************************************************************)
(* C34. Once running is false, a task loop that is waiting on a receive    *)
(* (or sleeping, or about to test the flag) exits by itself at its next    *)
(* re-evaluation of the flag: both handlers eventually end without         *)
(* needing the supervisor's cancellation, every steady-state wait being    *)
(* bounded by a short timeout.                                             *)
(***************************************************************************)
Ended(t) == t \in {"done", "cancelling", "cancelled"}

FailsEmpty(frame) ==
    \A format \in {"webm_opus", "wav"} :
        /\ TranscodeFromPcm(frame, format, FALSE) = "empty"
        /\ TranscodeToPcm(frame, format, FALSE) = "empty"

PcmUnchanged(frame) ==
    \A ran \in BOOLEAN :
        /\ TranscodeFromPcm(frame, "pcm_16", ran) = frame
        /\ TranscodeToPcm(frame, "pcm_16", ran) = frame

C35_TranscoderFailureAbsorbed ==
    /\ [](\A i \in 1..Len(model_rx) :
             model_rx[i] # "empty" =>
                 FailsEmpty(model_rx[i]) /\ PcmUnchanged(model_rx[i]))
    /\ [][(model_task = "transcode" /\ model_task' # model_task) =>
             model_task' \in {"send", "top", "cancelling"}]_vars
    /\ [][TranscoderFailed =>
             /\ model_task' = "top"
             /\ ~is_model_speaking'
             /\ UNCHANGED <<client_out, is_running, first_end, call_end,
                            stream_pc, client_task>>]_vars

C35_Witness ==
    /\ model_rx = <<"audio">>
    /\ model_task = "recv"
    /\ client_out = <<>>
    /\ transcript = <<>>
    /\ is_running
    /\ stream_pc = "streaming"

(***************************************************************************)
(* C36. Text-only fallback: when every sidecar connection attempt has      *)
(* failed, connect_model has returned with model_ws null and               *)
(* process_stream still sets running and starts both tasks; in that mode   *)
(* the sidecar-output task never receives, sends the client nothing and    *)
(* does not end on its own: the first task to end is the client-input      *)
(* task.                                                                   *)
(***************************************************************************)
TextOnly == stream_pc \in {"streaming", "awaiting"} /\ model_ws = "none"

C36_TextOnlyFallback ==
    /\ []((stream_pc = "returned" /\ model_state = "error") =>
            /\ model_ws = "none"
            /\ ENABLED (ProcessStreamStart /\ UNCHANGED idleVars))
    /\ [][(stream_pc = "returned" /\ stream_pc' # stream_pc) =>
             (is_running' /\ client_task' = "top" /\ model_task' = "top")]_vars
    /\ [](TextOnly =>
            /\ model_state = "error"
            /\ model_task \in {"top", "sleep", "done", "cancelling", "cancelled"}
            /\ model_rx = <<>>
            /\ \A frame \in SidecarFrames : ~SentToClient(WebmOf(frame))
            /\ model_task = "done" => client_task = "done")
    /\ [][(TextOnly /\ first_end = "none" /\ first_end' # "none") =>
             client_task' = "done"]_vars

C36_Witness ==
    /\ TextOnly
    /\ stream_pc = "awaiting"
    /\ client_task = "done"
    /\ model_task = "cancelling"
    /\ client_out = <<"response_part">>

(***************************************************************************)
(* C37. Client turns are processed strictly one at a time: while           *)
(* process_conversation_turn is relaying the reply to one user message     *)
(* the client-input task reads no further client frame, and when it reads  *)
(* the next message every event of the earlier replies has been sent, so   *)
(* the events of two messages are never interleaved and come in the order  *)
(* the messages were received.                                             *)
(***************************************************************************)
MessageRead == Count(client_rx', "message") > Count(client_rx, "message")

C37_TurnsOneAtATime ==
    /\ [][client_task = "turn" => client_rx' = client_rx]_vars
    /\ [][MessageRead =>
             /\ turn = <<>>
             /\ client_out = AllEventsDue(engine_out)]_vars

C37_Witness ==
    /\ client_rx = <<"message", "message">>
    /\ engine_out = <<"text", "text", "text", "error">>
    /\ client_out = <<"response_part", "response_part", "response_part", "error">>
    /\ client_task = "top"

(***************************************************************************)
(* C38. Every call of OggPageParser.process terminates: each iteration of  *)
(* the parsing loop either stops the call or strictly shrinks the buffer.  *)
(* A resynchronization removes at least one byte from the front; a         *)
(* consumed page removes exactly 27 + segment_count + sum(segment_table)   *)
(* >= 27 bytes from the front and nothing else; so a call on a buffer of   *)
(* n bytes is over after at most n iterations that go on.                  *)
(***************************************************************************)
RECURSIVE Trail(_, _)
Trail(buf, fuel) ==
    IF fuel = 0 \/ ~LoopGoesOn(buf) THEN <<buf>>
    ELSE <<buf>> \o Trail(LoopBuffer(buf), fuel - 1)

Shrunk(before, after) ==
    /\ IsSuffix(after, before)
    /\ IF Take(before, 4) # OggS
       THEN Len(before) - Len(after) >= 1
       ELSE /\ Len(before) - Len(after) =
                 27 + before[27] + SumSeq(SubSeq(before, 28, 27 + before[27]))
            /\ Len(before) - Len(after) >= 27

C38_ProcessTerminates ==
    [][pos' # pos =>
         \E tr \in {Trail(buffer \o SubSeq(stream, pos + 1, pos'),
                          Len(buffer) + pos' - pos)} :
            /\ ~LoopGoesOn(tr[Len(tr)])
            /\ Len(tr) <= Len(buffer) + pos' - pos
            /\ \A i \in 1..(Len(tr) - 1) : Shrunk(tr[i], tr[i + 1])
            /\ IsSuffix(buffer', tr[Len(tr)])]_vars

C38_Witness ==
    /\ garbage = <<79, 103, 103, 83, 120>>
    /\ Len(pages) = 2
    /\ pos = Len(stream)
    /\ ~split
    /\ buffer = <<>>

InitEndpoint ==
    /\ InitParser /\ FeedIdle /\ BridgeCreated(TRUE) /\ waited = 0
    /\ RecorderCreated /\ RepositoryCreated /\ EndpointCreated

callIdleVars == <<oggVars, bridgeVars, waited, recVars, repoVars>>

NextEndpoint ==
    \/ \E c \in Calls : Accept(c) /\ UNCHANGED callIdleVars
    \/ \E c \in Calls : CallStart(c) /\ UNCHANGED callIdleVars
    \/ \E c \in Calls : LoadTenant(c) /\ UNCHANGED callIdleVars
    \/ \E c \in Calls : CreateSession(c) /\ UNCHANGED callIdleVars
    \/ \E c \in Calls : CreateBridge(c) /\ UNCHANGED callIdleVars
    \/ \E c \in Calls : SendReady(c) /\ UNCHANGED callIdleVars
    \/ \E c \in Calls : Streamed(c) /\ UNCHANGED callIdleVars
    \/ \E c \in Calls : InnerError(c) /\ UNCHANGED callIdleVars
    \/ \E c \in Calls : Disconnected(c) /\ UNCHANGED callIdleVars
    \/ \E c \in Calls : Unexpected(c) /\ UNCHANGED callIdleVars
    \/ \E c \in Calls : FinallyStop(c) /\ UNCHANGED callIdleVars
    \/ \E c \in Calls : FinallyClose(c) /\ UNCHANGED callIdleVars
    \/ \E c \in Calls : FinallyEnrich(c) /\ UNCHANGED callIdleVars
    \/ \E sid \in ConvIds : CloseConversation(sid) /\ UNCHANGED callIdleVars

SpecEndpoint == InitEndpoint /\ [][NextEndpoint]_vars

(***************************************************************************)
(* C40. No conversation session leaks from the call endpoint: however a    *)
(* call that created its conversation session ends (normal end, client     *)
(* disconnect, connection error, streaming error, unexpected exception,    *)
(* cancellation), the endpoint has invoked stop() on its bridge when it    *)
(* had one, and its session is out of active_sessions before the endpoint  *)
(* finishes: from the end of its finally block's close_session on.        *)
(***************************************************************************)
PastClose(c) == endpoint_pc[c] \in {"enrich", "done"}

C40_NoSessionLeak ==
    \A c \in Calls :
       PastClose(c) =>
          /\ conversation_session[c] \notin active_sessions
          /\ stop_calls[c] = IF audio_bridge[c] THEN 1 ELSE 0

C40_Witness ==
    /\ endpoint_pc = [c \in Calls |-> "done"]
    /\ conversation_session = [c \in Calls |-> SessionOf(c)]
    /\ audio_bridge["call1"] /\ stop_calls["call1"] = 1
    /\ recorder_status["call1"] = "ERROR"
    /\ call_sent["call1"] = <<"connected", "streaming_error", "close_1011">>
    /\ call_sent["call2"] = <<"connected">>
    /\ ~audio_bridge["call2"]
    /\ recorder_status["call2"] = "DISCONNECTED"
    /\ scheduled = {"conv2"}
    /\ active_sessions = {}

====
